---- MODULE Spec2Model ----
(***************************************************************************)
(* MedGuard backend (lovelyjhk/AI_basic, src/backend): the content         *)
(* addressed backup store of storage.rs, backup.rs and crypto.rs.          *)
(*                                                                         *)
(* The watched directory is `files`, the storage directory is `manifest`   *)
(* (one <hash of path>.json per source path) and `blocks` (the objects     *)
(* under blocks/<2 chars>/<digest>).  backup_file is called from the       *)
(* monitoring loop, restore_file from the HTTP handler; the final          *)
(* fs::write of restore_file is modelled by the system calls it makes      *)
(* (create with truncation, then writes of the buffer).                    *)
(***************************************************************************)
EXTENDS Integers, Sequences, FiniteSets, TLC

(* ------------------------------ bounds -------------------------------- *)
\* Bytes per block in the model; stands for the 4096 of storage.rs:33,68.
BlockSize == 2
\* Longest file content, in bytes.
MaxLen == 3
\* Modifications the environment makes to the watched files (Spec).
MaxWrites == 2
\* Restore requests served.
MaxRestores == 1
\* Tampering steps on the storage directory (SpecFaults).
MaxFaults == 1
\* Modifications the environment makes to the watched file (SpecFaults).
FaultWrites == 1

(* ------------------------- program constants -------------------------- *)
\* storage.rs:91  `if backup_info.versions.len() > 100`
MaxVersions == 100
\* storage.rs:92  `backup_info.versions.drain(0..10)`
TrimCount == 10

Bytes == {0, 1}
Paths == {"a.dcm", "b.dcm"}
\* The path SpecRetention and SpecFaults follow.
RetentionPath == "a.dcm"
Contents == UNION {[1..n -> Bytes] : n \in 0..MaxLen}

VARIABLES
    files,          \* watched directory: path -> [exists, data]
    manifest,       \* storage directory: path -> the manifest file of the path
    blocks,         \* storage directory: block path -> stored payload
    encryption_key, \* Storage.encryption_key of the running process
    rng,            \* Crypto.rng: the number of nonces drawn so far
    rs,             \* the restore_file call: its position, then its result
    recorded,       \* history: path -> every (version number, content) recorded
    clean,          \* history: path -> backed up and not modified since
    writes, restores, faults

VARIABLES
    channel,        \* FileMonitor.receiver: the events sent and not yet received
    mon,            \* start_monitoring: its position and the event it handles
    tasks,          \* the backup_file executions: slot -> position and locals
    detector,       \* ThreatDetector: event_window, files_monitored
    alerts,         \* AppState.alerts
    detector_lock,  \* the RwLock around the detector: writer, readers
    handlers,       \* get_status / get_metrics: handler -> position
    now,            \* the wall clock, in seconds
    config,         \* Config.detection
    last_check,     \* what the latest check_threat call returned
    delivered,      \* history: every event the event source has sent
    handled         \* history: per received event, what the loop did with it

VARIABLES
    diff,           \* a calculate_incremental_changes call: inputs and result
    old_blocks,     \* history: the objects written by earlier processes
    monitor,        \* FileMonitor::new: the allow-list its thread holds, the
                    \* channel into the thread, and (history) the events
                    \* the watcher produced
    sync            \* the detector and alert RwLocks with their wait queues,
                    \* and the position of each task in its lock script

VARIABLES
    isolated,       \* an IsolatedWriteManager, the directories and files it
                    \* made, the clock, and what redirect_write last returned
    incremental     \* an IncrementalBackupEngine, its source directory, the
                    \* clock, the run in progress and what the runs copied

\* The state of the monitoring side and of the engine calls.
mvars == <<channel, mon, tasks, detector, alerts, detector_lock, handlers,
           now, config, last_check, delivered, handled, diff, old_blocks,
           monitor, sync, isolated, incremental>>

vars == <<files, manifest, blocks, encryption_key, rng, rs, recorded, clean,
          writes, restores, faults, mvars>>

(* ------------------------------ Option -------------------------------- *)
None == [some |-> FALSE, v |-> 0]
Some(n) == [some |-> TRUE, v |-> n]

(* ------------------------------ crypto.rs ----------------------------- *)
\* Crypto::hash: BLAKE3 as a hex string.  Collision-free on the model's
\* contents: the length, the bytes, then padding to a fixed width.
hash(data) == <<Len(data)>> \o data \o [i \in 1..(MaxLen - Len(data)) |-> 0]

\* Crypto::encrypt: nonce || AES-256-GCM(data) with its tag.  The nonce is
\* drawn from the generator; the model numbers the draws.
encrypt(data, key, nonce) ==
    [nonce |-> nonce, key |-> key, sealed |-> data, tag |-> TRUE]

\* Crypto::decrypt: opens only under the sealing key and with an intact tag.
decrypt(encrypted_data, key) ==
    IF encrypted_data.key = key /\ encrypted_data.tag
    THEN [ok |-> TRUE, data |-> encrypted_data.sealed]
    ELSE [ok |-> FALSE, data |-> <<>>]

\* The content a digest of the model stands for.
Unhash(digest) == SubSeq(digest, 2, 1 + digest[1])

(* ------------------------------ backup.rs ----------------------------- *)
\* Storage::new builds its engine with BackupEngine::new(4096).
block_size == BlockSize

\* slice::chunks(n): consecutive pieces of n bytes, the last one shorter.
chunks(data, n) ==
    [i \in 1..((Len(data) + n - 1) \div n) |->
        SubSeq(data, (i - 1) * n + 1,
               IF i * n < Len(data) THEN i * n ELSE Len(data))]

create_block_hashes(data) ==
    LET cs == chunks(data, block_size)
    IN  [i \in DOMAIN cs |-> hash(cs[i])]

\* BackupEngine::new(block_size).
BackupEngine(n) == [block_size |-> n]

\* BackupEngine::create_block_hashes of an engine with its own block size.
engine_block_hashes(engine, data) ==
    LET cs == chunks(data, engine.block_size)
    IN  [i \in DOMAIN cs |-> hash(cs[i])]

\* Variant: a chunk is reported when its digest is nowhere in previous_blocks.
calculate_incremental_changes_by_content(engine, current_data, previous_blocks) ==
    LET current_hashes == engine_block_hashes(engine, current_data)
        Changed(idx) == \A j \in DOMAIN previous_blocks :
                            current_hashes[idx + 1] # previous_blocks[j]
    IN  SelectSeq([i \in DOMAIN current_hashes |-> i - 1], Changed)

\* Variant: only the first changed chunk is reported.
calculate_incremental_changes_first(engine, current_data, previous_blocks) ==
    LET current_hashes == engine_block_hashes(engine, current_data)
        Changed(idx) == \/ idx >= Len(previous_blocks)
                        \/ current_hashes[idx + 1] # previous_blocks[idx + 1]
        all == SelectSeq([i \in DOMAIN current_hashes |-> i - 1], Changed)
    IN  IF all = <<>> THEN <<>> ELSE <<all[1]>>

\* Variant: the positions the previous digests have past the current chunks
\* are reported too.
calculate_incremental_changes_with_removed(engine, current_data, previous_blocks) ==
    LET current_hashes == engine_block_hashes(engine, current_data)
        longest == IF Len(previous_blocks) > Len(current_hashes)
                   THEN Len(previous_blocks) ELSE Len(current_hashes)
        Changed(idx) == \/ idx >= Len(previous_blocks)
                        \/ idx >= Len(current_hashes)
                        \/ current_hashes[idx + 1] # previous_blocks[idx + 1]
    IN  SelectSeq([i \in 1..longest |-> i - 1], Changed)

\* BackupEngine::calculate_incremental_changes: enumerate() counts from 0, and
\* filter_map keeps the order.
calculate_incremental_changes(engine, current_data, previous_blocks) ==
    LET current_hashes == engine_block_hashes(engine, current_data)
        Changed(idx) == \/ idx >= Len(previous_blocks)
                        \/ current_hashes[idx + 1] # previous_blocks[idx + 1]
    IN  SelectSeq([i \in DOMAIN current_hashes |-> i - 1], Changed)

\* No calculate_incremental_changes call made.
NoDiff ==
    [engine |-> BackupEngine(block_size), current_data |-> <<>>,
     previous_blocks |-> <<>>, changes |-> <<>>, called |-> FALSE]

\* Variant: the version number is left at 0.
create_backup_unset(data) ==
    [version |-> 0,
     file_hash |-> hash(data),
     block_hashes |-> create_block_hashes(data),
     size |-> Len(data)]

\* BackupEngine::create_backup on a readable file holding `data`.
create_backup(data) ==
    [version |-> 1,
     file_hash |-> hash(data),
     block_hashes |-> create_block_hashes(data),
     size |-> Len(data)]

\* BackupEngine::compress / decompress: a zstd frame around the bytes.
compress(data) == [zstd |-> data]
decompress(compressed) ==
    IF "zstd" \in DOMAIN compressed
    THEN [ok |-> TRUE, data |-> compressed.zstd]
    ELSE [ok |-> FALSE, data |-> <<>>]

encrypt_block(block, key, nonce) == encrypt(block, key, nonce)
decrypt_block(encrypted_block, key) == decrypt(encrypted_block, key)

(* ------------------------------ storage.rs ---------------------------- *)
\* Storage::get_block_path: blocks/<first 2 chars>/<digest>.
\* Variant: the object is named by the 2-char prefix only.
get_block_path_prefix(block_hash) ==
    <<"blocks", SubSeq(block_hash, 1, 2), SubSeq(block_hash, 1, 2)>>

get_block_path(block_hash) == <<"blocks", SubSeq(block_hash, 1, 2), block_hash>>

\* The manifest file of a path: absent, unparsable, or a saved BackupInfo.
Missing == [kind |-> "missing"]
Unparsable == [kind |-> "corrupt"]
Saved(info) == [kind |-> "json", info |-> info]

\* Storage::load_backup_info: read_to_string, then serde_json::from_str.
load_backup_info(p) ==
    CASE manifest[p].kind = "missing" -> [ok |-> FALSE, err |-> "LoadIo"]
      [] manifest[p].kind = "corrupt" -> [ok |-> FALSE, err |-> "LoadJson"]
      [] OTHER -> [ok |-> TRUE, info |-> manifest[p].info]

\* Variant: the history built for a manifest that cannot be loaded starts
\* with a placeholder version.
unwrap_or_else_placeholder(loaded, p) ==
    IF loaded.ok THEN loaded.info
    ELSE [file_path |-> p,
          versions |-> <<[version |-> 0, file_hash |-> hash(<<>>),
                          block_hashes |-> <<>>, size |-> 0]>>]

\* backup_file lines 52-56: the BackupInfo loaded, or an empty one when the
\* load failed.
unwrap_or_else(loaded, p) ==
    IF loaded.ok THEN loaded.info ELSE [file_path |-> p, versions |-> <<>>]

\* fs::write of one file of a directory.
FsWrite(dir, path, payload) ==
    [q \in (DOMAIN dir) \cup {path} |-> IF q = path THEN payload ELSE dir[q]]

Last(s) == s[Len(s)]

\* Variant: every block is written, whether its object exists or not.
BlockAbsent_always(dir, block_path) == TRUE

\* backup_file line 73: `!block_path.exists()`.
BlockAbsent(dir, block_path) == block_path \notin DOMAIN dir

\* The loop of backup_file lines 68-81 from chunk idx on; `st` is the block
\* directory and the generator as the loop leaves them.
RECURSIVE StoreBlocks(_, _, _, _)
StoreBlocks(st, cs, block_hashes, idx) ==
    IF idx > Len(cs) THEN st
    ELSE LET block_path == get_block_path(block_hashes[idx])
             compressed == compress(cs[idx])
             encrypted  == encrypt_block(compressed, encryption_key, st.rng + 1)
             st2 == IF BlockAbsent(st.dir, block_path)
                    THEN [dir |-> FsWrite(st.dir, block_path, encrypted),
                          rng |-> st.rng + 1]
                    ELSE st
         IN  StoreBlocks(st2, cs, block_hashes, idx + 1)

\* Variant: a number is left out, as if an attempt before had used one up.
VersionNumber_skipping(versions) == Len(versions) + 2

\* Variant: the `+ 1` of line 84 left out.
VersionNumber_len(versions) == Len(versions)

\* backup_file lines 84-86: the number the new version gets.
VersionNumber(versions) == Len(versions) + 1

\* Variant: the drain takes the newest versions instead of the oldest.
Trim_newest(versions) ==
    IF Len(versions) > MaxVersions
    THEN SubSeq(versions, 1, Len(versions) - TrimCount)
    ELSE versions

\* backup_file lines 90-93: keep only the last versions.
Trim(versions) ==
    IF Len(versions) > MaxVersions
    THEN SubSeq(versions, TrimCount + 1, Len(versions))
    ELSE versions

\* backup_file lines 83-93: number the version, push it, trim.
PushVersion(versions, backup_version) ==
    LET version_number == VersionNumber(versions)
        new_version == [backup_version EXCEPT !.version = version_number]
    IN  Trim(Append(versions, new_version))

\* Variant: the digest is compared with the first version, not the last.
Unchanged_first(versions, backup_version) ==
    /\ versions # <<>>
    /\ versions[1].file_hash = backup_version.file_hash

\* backup_file lines 58-64: the file has the digest of the last version.
Unchanged(versions, backup_version) ==
    /\ versions # <<>>
    /\ Last(versions).file_hash = backup_version.file_hash

NoFileState == [exists |-> FALSE, data |-> <<>>]
FileOf(data) == [exists |-> TRUE, data |-> data]

\* A file that exists and that the process cannot read: File::open or
\* File::read on it returns an error.
Unreadable == [exists |-> TRUE, data |-> <<0, 1>>, readable |-> FALSE]
Readable(file) == "readable" \notin DOMAIN file \/ file.readable

\* A file whose first 8192 bytes hold each of the 256 byte values 32 times,
\* as encrypted content does; its bytes are not written out.
Ciphertext == [exists |-> TRUE, data |-> <<>>, byte_values |-> 256]
Spread(file) == "byte_values" \in DOMAIN file

\* The restore_file call: pc is its position, result its return value; prev
\* is the target and seen the number of versions recorded when it was called.
Idle == [pc |-> "idle", path |-> "", version |-> None, buf |-> <<>>,
         prev |-> NoFileState, seen |-> 0, off |-> 0, block |-> 0,
         result |-> "none"]

(* ------------------------------ config.rs ----------------------------- *)
\* Config::default().detection.  The entropy threshold (7.5 bits per byte) is
\* kept in thousandths of a bit; an extension string is "." and the extension.
DefaultDetection ==
    [entropy_threshold |-> 7500,
     rapid_change_threshold |-> 50,
     suspicious_extensions |-> {<<".", "locked">>, <<".", "encrypted">>,
                                <<".", "crypto">>, <<".", "crypt">>, <<".", "enc">>},
     time_window_seconds |-> 60]

(* ------------------------------ monitor.rs ---------------------------- *)
\* Path::extension of the paths events are about.
extension(path) ==
    CASE path \in {"a.dcm", "b.dcm"} -> Some("dcm")
      [] path = "c.hl7" -> Some("hl7")
      [] path = "d.xml" -> Some("xml")
      [] path = "e.json" -> Some("json")
      [] path = "f.db" -> Some("db")
      [] path = "g.txt" -> Some("txt")
      [] path = "h.locked" -> Some("locked")
      [] OTHER -> None

\* FileEvent, as convert_event builds it at the time `t`.
FileEvent(path, event_type, t) ==
    [path |-> path, event_type |-> event_type, timestamp |-> t]

NoEvent == FileEvent("", "none", 0)

\* notify::Event: its kind and its paths.
Event(kind, paths) == [kind |-> kind, paths |-> paths]

\* FileMonitor::convert_event at the time `t`: the FileEvent of the first
\* path of a create, modify or remove event, None for any other event.
convert_event(event, t) ==
    IF event.kind \in {"Create", "Modify", "Remove"} /\ event.paths # <<>>
    THEN Some(FileEvent(event.paths[1],
                        CASE event.kind = "Create" -> "Created"
                          [] event.kind = "Modify" -> "Modified"
                          [] event.kind = "Remove" -> "Deleted",
                        t))
    ELSE None

\* Variant: every path with an extension gets through.
Allowed_any(extensions, event) == extension(event.path).some

\* Variant: an empty allow-list lets nothing through.
Allowed_listed(extensions, event) ==
    /\ extension(event.path).some
    /\ <<".", extension(event.path).v>> \in extensions

\* FileMonitor::new lines 65-70: the test the forwarding thread makes on an
\* event; the extension is compared as "." followed by the extension.
Allowed(extensions, event) ==
    /\ extension(event.path).some
    /\ extensions = {} \/ <<".", extension(event.path).v>> \in extensions

\* MonitoringConfig::default: file_extensions, each the dot and the extension.
DefaultExtensions ==
    {<<".", "dcm">>, <<".", "hl7">>, <<".", "xml">>, <<".", "json">>, <<".", "db">>}

\* FileMonitor::new with an allow-list, before the watcher reports an event.
NewMonitor(extensions) ==
    [extensions |-> extensions, rx |-> <<>>, watched |-> <<>>]

(* ------------------------------ detector.rs --------------------------- *)
\* ThreatDetector::new.
NewDetector == [event_window |-> <<>>, file_hashes |-> <<>>, files_monitored |-> 0]

\* The file at a path of the watched tree.
FileAt(path) == IF path \in DOMAIN files THEN files[path] ELSE NoFileState

\* Variant: every path is taken to exist.
exists_always(path) == TRUE

\* Path::exists as start_monitoring line 159 and backup_file line 40 call it.
exists(path) == FileAt(path).exists

\* calculate_entropy, one term of the sum: -(k/n) log2(k/n) in thousandths
\* of a bit, for a byte value that k of the n bytes read have.
EntropyTerm(k, n) ==
    CASE k = n -> 0
      [] n = 2 /\ k = 1 -> 500
      [] n = 3 /\ k = 1 -> 528
      [] n = 3 /\ k = 2 -> 390
      [] n = 4 /\ k = 1 -> 500
      [] n = 4 /\ k = 2 -> 500
      [] n = 4 /\ k = 3 -> 311

\* calculate_entropy lines 150-158: the sum of the terms of the byte values
\* of S that occur among the n bytes read.
RECURSIVE EntropySum(_, _, _)
EntropySum(S, frequency, n) ==
    IF S = {} THEN 0
    ELSE LET b == CHOOSE y \in S : TRUE
         IN  (IF frequency[b] > 0 THEN EntropyTerm(frequency[b], n) ELSE 0)
             + EntropySum(S \ {b}, frequency, n)

\* calculate_entropy lines 150-158 on n byte values that occur equally
\* often: n terms of (1/n) log2(n), in thousandths of a bit.
SpreadEntropy(n) == CASE n = 2 -> 1000 [] n = 16 -> 4000 [] n = 256 -> 8000

\* Variant: the bytes of a file are read whatever File::open and File::read
\* return.
EntropyOf_unchecked(file) ==
    LET buffer == file.data
        bytes_read == Len(buffer)
        frequency == [b \in Bytes |-> Cardinality({i \in 1..bytes_read : buffer[i] = b})]
    IN  IF ~file.exists THEN [ok |-> FALSE, entropy |-> 0]
        ELSE IF Spread(file) THEN [ok |-> TRUE, entropy |-> SpreadEntropy(file.byte_values)]
        ELSE IF bytes_read = 0 THEN [ok |-> TRUE, entropy |-> 0]
        ELSE [ok |-> TRUE, entropy |-> EntropySum(Bytes, frequency, bytes_read)]

\* calculate_entropy on the file a path names: Err when it cannot be opened
\* or read, 0 for an empty
\* file, else the Shannon entropy of the bytes read (the model's files are
\* shorter than the 8192 bytes it reads).
EntropyOf(file) ==
    LET buffer == file.data
        bytes_read == Len(buffer)
        frequency == [b \in Bytes |-> Cardinality({i \in 1..bytes_read : buffer[i] = b})]
    IN  IF ~file.exists \/ ~Readable(file) THEN [ok |-> FALSE, entropy |-> 0]
        ELSE IF Spread(file) THEN [ok |-> TRUE, entropy |-> SpreadEntropy(file.byte_values)]
        ELSE IF bytes_read = 0 THEN [ok |-> TRUE, entropy |-> 0]
        ELSE [ok |-> TRUE, entropy |-> EntropySum(Bytes, frequency, bytes_read)]

calculate_entropy(path) == EntropyOf(FileAt(path))

\* Variant: an extension counts from 3 events on.
detect_mass_rename_from3(event_window) ==
    LET WithExt == {i \in DOMAIN event_window : extension(event_window[i].path).some}
        Exts == {extension(event_window[i].path).v : i \in WithExt}
        Count(e) == Cardinality({i \in WithExt : extension(event_window[i].path).v = e})
    IN  Cardinality({e \in Exts : Count(e) >= 3})

\* ThreatDetector::detect_mass_rename: the extensions more than 3 events of
\* the window have.
detect_mass_rename(event_window) ==
    LET WithExt == {i \in DOMAIN event_window : extension(event_window[i].path).some}
        Exts == {extension(event_window[i].path).v : i \in WithExt}
        Count(e) == Cardinality({i \in WithExt : extension(event_window[i].path).v = e})
    IN  Cardinality({e \in Exts : Count(e) > 3})

\* Vec<String>::join("; "): the strings with the separator between them.
RECURSIVE join(_)
join(threat_reasons) ==
    IF Len(threat_reasons) <= 1 THEN threat_reasons
    ELSE <<Head(threat_reasons), <<"; ", 0>>>> \o join(Tail(threat_reasons))

\* Variant: the score of the call before is carried over.
InitialScore_carried(d) ==
    IF last_check.result.some THEN last_check.result.v.score ELSE 0

\* check_threat line 55: the score starts from 0.
InitialScore(d) == 0

\* Variant: the window has to exceed the threshold by more than one event.
RapidChanges_late(recent_events, cfg) == recent_events > cfg.rapid_change_threshold + 1

\* check_threat line 60: more events in the window than the threshold.
RapidChanges(recent_events, cfg) == recent_events > cfg.rapid_change_threshold

\* check_threat lines 66-75: the events of the window with a suspicious
\* extension.
suspicious_count(event_window, cfg) ==
    Cardinality({i \in DOMAIN event_window :
        LET ext == extension(event_window[i].path)
        IN  ext.some /\ <<".", ext.v>> \in cfg.suspicious_extensions})

\* check_threat lines 83-92: the entropy of the most recent event's file,
\* when the file exists and can be read.
LastEntropy(event_window) ==
    IF event_window # <<>> /\ FileAt(Last(event_window).path).exists
    THEN calculate_entropy(Last(event_window).path)
    ELSE [ok |-> FALSE, entropy |-> 0]

HighEntropy(event_window, cfg) ==
    LastEntropy(event_window).ok
    /\ LastEntropy(event_window).entropy > cfg.entropy_threshold

\* check_threat lines 55-99: the score summed over the four checks.
ThreatScore(d, cfg) ==
    InitialScore(d)
    + (IF RapidChanges(Len(d.event_window), cfg) THEN 30 ELSE 0)
    + (IF suspicious_count(d.event_window, cfg) > 0 THEN 20 ELSE 0)
    + (IF HighEntropy(d.event_window, cfg) THEN 40 ELSE 0)
    + (IF detect_mass_rename(d.event_window) > 5 THEN 10 ELSE 0)

\* check_threat lines 56-99: the reasons pushed, each its text and the number
\* formatted into it.
ThreatReasons(d, cfg) ==
    (IF RapidChanges(Len(d.event_window), cfg)
     THEN <<<<"Rapid file changes detected: {} files/min", Len(d.event_window)>>>>
     ELSE <<>>)
    \o (IF suspicious_count(d.event_window, cfg) > 0
        THEN <<<<"Suspicious extensions: {} files",
                 suspicious_count(d.event_window, cfg)>>>>
        ELSE <<>>)
    \o (IF HighEntropy(d.event_window, cfg)
        THEN <<<<"High entropy detected: {:.2} bits/byte",
                 LastEntropy(d.event_window).entropy>>>>
        ELSE <<>>)
    \o (IF detect_mass_rename(d.event_window) > 5
        THEN <<<<"Mass file renaming: {} patterns",
                 detect_mass_rename(d.event_window)>>>>
        ELSE <<>>)

\* Variant: a score of 60 is enough for the alert.
Alerting_from60(threat_score) == threat_score >= 60

\* Variant: the alert needs a score above 70.
Alerting_above(threat_score) == threat_score > 70

\* check_threat line 102.
Alerting(threat_score) == threat_score >= 70

\* ThreatDetector::check_threat on the detector d under the detection
\* configuration cfg at the time t (lines 101-113; `back()?` ends the call
\* with None on an empty window).
check_threat(d, cfg, t) ==
    IF Alerting(ThreatScore(d, cfg)) /\ d.event_window # <<>>
    THEN [some |-> TRUE,
          v |-> [timestamp |-> t,
                 score |-> ThreatScore(d, cfg),
                 description |-> join(ThreatReasons(d, cfg)),
                 file_path |-> Last(d.event_window).path,
                 threat_type |-> "Ransomware"]]
    ELSE None

\* What a check_threat call leaves in last_check: its result, the window and
\* the file it saw, whether it was called directly, and whether the call
\* before it saw the same window and file.
Checked(d, cfg, t, direct) ==
    LET file == IF d.event_window = <<>> THEN NoFileState
                ELSE FileAt(Last(d.event_window).path)
    IN  [result |-> check_threat(d, cfg, t),
         window |-> d.event_window,
         file |-> file,
         calls |-> IF direct THEN last_check.calls + 1 ELSE last_check.calls,
         repeat |-> direct /\ last_check.calls > 0
                    /\ last_check.window = d.event_window /\ last_check.file = file]

\* process_event line 38.
push_back(event_window, event) == Append(event_window, event)

\* process_event lines 42-43: now minus the window.
cutoff_time(cfg, t) == t - cfg.time_window_seconds

\* Variant: at most one old entry is removed.
Evict_one(event_window, cutoff) ==
    IF event_window # <<>> /\ Head(event_window).timestamp < cutoff
    THEN Tail(event_window)
    ELSE event_window

\* process_event lines 45-51: pop the front while it is older than the cutoff.
RECURSIVE Evict(_, _)
Evict(event_window, cutoff) ==
    IF event_window # <<>> /\ Head(event_window).timestamp < cutoff
    THEN Evict(Tail(event_window), cutoff)
    ELSE event_window

\* ThreatDetector::process_event as a whole, called at the time t.
process_event(d, event, cfg, t) ==
    [d EXCEPT !.event_window = Evict(push_back(@, event), cutoff_time(cfg, t)),
              !.files_monitored = @ + 1]

(* ------------------------------ main.rs ------------------------------- *)
\* start_monitoring lines 152-155: keep only the last alerts.
MaxAlerts == 1000
AlertTrim == 100

\* Variant: the log is cut back to the cap, one alert at a time.
PushAlert_capped(log, threat) ==
    LET pushed == Append(log, threat)
    IN  IF Len(pushed) > MaxAlerts
        THEN SubSeq(pushed, Len(pushed) - MaxAlerts + 1, Len(pushed))
        ELSE pushed

\* start_monitoring lines 149-155: store the alert, trim the log.
PushAlert(log, threat) ==
    LET pushed == Append(log, threat)
    IN  IF Len(pushed) > MaxAlerts
        THEN SubSeq(pushed, AlertTrim + 1, Len(pushed))
        ELSE pushed

\* Slots for backup_file executions in progress.
MaxTasks == 2
Slots == 1..MaxTasks

\* A backup_file execution: idle (with the result of the last call in the
\* slot) or at a position, with its locals.
IdleTask == [pc |-> "idle", path |-> "", backup_version |-> create_backup(<<>>),
             versions |-> <<>>, result |-> "none"]

\* The handlers that read the detector.
Handlers == {"get_status", "get_metrics"}

\* Variant: the handlers read the detector without taking the lock.
ReadGranted_unlocked(l) == TRUE

\* RwLock<ThreatDetector>: write() is granted when nobody holds the lock,
\* read() when no writer holds it.
WriteGranted(l) == ~l.writer /\ l.readers = 0
ReadGranted(l) == ~l.writer

(* ----------------- main.rs: the RwLocks of AppState -------------------- *)
\* The tasks that take the detector lock or the alert lock.
LockTasks == {"start_monitoring", "get_status", "get_metrics", "get_alerts"}

\* The locks of AppState.
Locks == {"detector", "alerts"}

\* The steps of a lock script: lock.read().await / lock.write().await, the
\* drop of a guard, and a statement run in between.
Acquire(lock, mode) == [op |-> "acquire", lock |-> lock, mode |-> mode]
Drop(lock) == [op |-> "drop", lock |-> lock, mode |-> "none"]
Run(what) == [op |-> "run", lock |-> what, mode |-> "none"]

\* Variant: get_status reads the alerts before the detector.
Scripts_alerts_first(task) ==
    CASE task = "start_monitoring" ->
            {<<Acquire("detector", "write"), Run("backup_file"), Drop("detector")>>,
             <<Acquire("detector", "write"), Acquire("alerts", "write"),
               Drop("alerts"), Run("backup_file"), Drop("detector")>>}
      [] task = "get_status" ->
            {<<Acquire("alerts", "read"), Acquire("detector", "read"),
               Run("backup_count"), Drop("alerts"), Drop("detector")>>}
      [] task = "get_metrics" ->
            {<<Acquire("detector", "read"), Acquire("alerts", "read"),
               Run("backup_count"), Drop("alerts"), Drop("detector")>>}
      [] task = "get_alerts" ->
            {<<Acquire("alerts", "read"), Drop("alerts")>>}

\* What each task does with the locks, in program order.  One iteration of
\* start_monitoring takes the detector write guard, takes and drops the alert
\* write guard when check_threat returned an alert, awaits backup_file and
\* drops the detector guard at the end of the loop body; get_status and
\* get_metrics take the detector read guard, then the alert read guard, and
\* drop both when they return; get_alerts takes the alert read guard only.
Scripts(task) ==
    CASE task = "start_monitoring" ->
            {<<Acquire("detector", "write"), Run("backup_file"), Drop("detector")>>,
             <<Acquire("detector", "write"), Acquire("alerts", "write"),
               Drop("alerts"), Run("backup_file"), Drop("detector")>>}
      [] task \in {"get_status", "get_metrics"} ->
            {<<Acquire("detector", "read"), Acquire("alerts", "read"),
               Run("backup_count"), Drop("alerts"), Drop("detector")>>}
      [] task = "get_alerts" ->
            {<<Acquire("alerts", "read"), Drop("alerts")>>}

\* tokio::sync::RwLock::new: no guard out, nobody queued.
NewLock == [holders |-> {}, queue |-> <<>>]

\* A task outside its script.
NoScript == [script |-> <<>>, at |-> 0, waiting |-> FALSE, crashed |-> FALSE]

\* AppState as main builds it, no task started.
NewSync == [lock |-> [l \in Locks |-> NewLock], task |-> [t \in LockTasks |-> NoScript]]

\* tokio's RwLock grants a request at the head of its queue: a read when no
\* write guard is out, a write when no guard is out.
Grantable(l, request) ==
    IF request.mode = "read"
    THEN \A h \in l.holders : h.mode = "read"
    ELSE l.holders = {}

(* ----------------- rust_crypto/src/lib.rs: isolated writes ------------ *)
\* Paths are the sequences of their components, "/" for the root.
\* Calls of redirect_write, and seconds the clock runs for.
MaxRedirects == 3
MaxSeconds == 2

\* The directories of test_isolated_write.
protected_dir == <<"/", "test_protected">>
clean_log_dir == <<"/", "test_clean_log">>

\* The paths writes are redirected for: the test's, one in a subdirectory,
\* and one outside the protected directory; and the data written.
OriginalPaths == {protected_dir \o <<"test.txt">>,
                  protected_dir \o <<"sub", "x.txt">>,
                  <<"/", "other", "y.txt">>}
RedirectData == {<<>>, <<0, 1>>}

\* Path::starts_with and Path::strip_prefix compare whole components.
starts_with(path, base) ==
    Len(base) <= Len(path) /\ SubSeq(path, 1, Len(base)) = base
strip_prefix(path, base) ==
    IF starts_with(path, base)
    THEN [some |-> TRUE, v |-> SubSeq(path, Len(base) + 1, Len(path))]
    ELSE [some |-> FALSE, v |-> <<>>]

\* clean_log_dir.join(format!("{}_{}", timestamp, relative_path)): the
\* text begins with the digits, so it is a relative path and its first
\* component is the stamp followed by the first name (by nothing when the
\* relative path is empty or begins at the root).
RedirectedPath(dir, timestamp, relative_path) ==
    LET first == IF relative_path = <<>> \/ Head(relative_path) = "/"
                 THEN "" ELSE Head(relative_path)
        rest == IF relative_path = <<>> THEN <<>> ELSE Tail(relative_path)
    IN  dir \o <<ToString(timestamp) \o "_" \o first>> \o rest

\* Path::parent.
parent(path) ==
    IF Len(path) > 1 THEN [some |-> TRUE, v |-> SubSeq(path, 1, Len(path) - 1)]
    ELSE [some |-> FALSE, v |-> <<>>]

\* fs::create_dir_all: the directory with every ancestor.
create_dir_all(dirs, path) == dirs \cup {SubSeq(path, 1, k) : k \in 1..Len(path)}

\* File::create then write_all: the file holds the data, whatever it held.
create_file(written, path, data) ==
    [p \in DOMAIN written \cup {path} |-> IF p = path THEN data ELSE written[p]]

\* IsolatedWriteManager::new.
NewManager == [is_isolation_active |-> FALSE, write_log |-> <<>>]

\* bail!("Isolation mode is not active").
NotActive == [ok |-> FALSE, operation |-> <<>>]

\* Variant: the write is redirected whether isolation is active or not.
redirect_write_unguarded(st, original_path, data) ==
    LET relative == strip_prefix(original_path, protected_dir)
        relative_path == IF relative.some THEN relative.v ELSE original_path
        timestamp == st.clock
        redirected_path == RedirectedPath(clean_log_dir, timestamp, relative_path)
        made == IF parent(redirected_path).some
                THEN create_dir_all(st.dirs, parent(redirected_path).v)
                ELSE st.dirs
        operation == [original_path |-> original_path,
                      redirected_path |-> redirected_path,
                      timestamp |-> timestamp,
                      data_size |-> Len(data)]
    IN  [st EXCEPT !.dirs = made,
                   !.written = create_file(st.written, redirected_path, data),
                   !.manager.write_log = Append(@, operation),
                   !.last = [ok |-> TRUE, operation |-> operation]]

\* IsolatedWriteManager::redirect_write on the manager, the directories and
\* the files of st at the time st.clock.
redirect_write(st, original_path, data) ==
    IF ~st.manager.is_isolation_active
    THEN [st EXCEPT !.last = NotActive]
    ELSE redirect_write_unguarded(st, original_path, data)

\* The manager of the test before activate_isolation: the protected
\* directory exists, nothing was redirected.
NewIsolated ==
    [manager |-> NewManager,
     dirs |-> create_dir_all({}, protected_dir),
     written |-> <<>>,
     clock |-> 0,
     calls |-> 0,
     last |-> NotActive]

(* --------------- rust_crypto/src/lib.rs: incremental backup ----------- *)
\* Calls of execute_backup, and modifications of files of the source
\* directory.
MaxRuns == 2
MaxModifications == 2

\* IncrementalBackupEngine::new.
NewEngine == [last_backup_time |-> None]

\* No execute_backup call is in progress.
NoRun == [pc |-> "idle", last_backup |-> None, unvisited |-> {},
          files_to_backup |-> {}, uncopied |-> {}]

\* The filter of the walk: without an earlier backup every file is taken,
\* otherwise the files modified later than the time the engine holds.
ToBackup(last_backup, modified) ==
    IF last_backup.some THEN modified > last_backup.v ELSE TRUE

\* The engine and its source directory before the first run: the files
\* of Paths, written at the time 0; the clock reads 1.  `content` counts
\* the modifications of a file; `scanned` (the content the walk of the
\* latest run found, -1 before any walk) and `copies` are history.
NewIncremental ==
    [engine |-> NewEngine,
     clock |-> 1,
     modified |-> [f \in Paths |-> 0],
     content |-> [f \in Paths |-> 0],
     run |-> NoRun,
     runs |-> 0,
     modifications |-> 0,
     scanned |-> [f \in Paths |-> -1],
     copies |-> {}]

\* The monitoring side after main has built the application state.
InitMonitoring ==
    /\ channel = <<>>
    /\ mon = [pc |-> "recv", event |-> NoEvent, slot |-> 0]
    /\ tasks = [s \in Slots |-> IdleTask]
    /\ detector = NewDetector
    /\ alerts = <<>>
    /\ detector_lock = [writer |-> FALSE, readers |-> 0]
    /\ handlers = [h \in Handlers |-> "idle"]
    /\ now = 0
    /\ config = DefaultDetection
    /\ last_check = [result |-> None, window |-> <<>>, file |-> NoFileState,
                     calls |-> 0, repeat |-> FALSE]
    /\ delivered = <<>>
    /\ handled = <<>>
    /\ diff = NoDiff
    /\ old_blocks = {}
    /\ monitor = NewMonitor(DefaultExtensions)
    /\ sync = NewSync
    /\ isolated = NewIsolated
    /\ incremental = NewIncremental

Init ==
    /\ files = [p \in Paths |-> NoFileState]
    /\ manifest = [p \in Paths |-> Missing]
    /\ blocks = <<>>
    /\ encryption_key = 1
    /\ rng = 0
    /\ rs = Idle
    /\ recorded = [p \in Paths |-> <<>>]
    /\ clean = [p \in Paths |-> FALSE]
    /\ writes = 0
    /\ restores = 0
    /\ faults = 0
    /\ InitMonitoring

\* Storage::backup_file(p), one call of the monitoring loop.
BackupFile(p) ==
    /\ UNCHANGED mvars
    /\ UNCHANGED <<files, encryption_key, rs, writes, restores, faults>>
    /\ IF ~files[p].exists
       THEN UNCHANGED <<manifest, blocks, rng, recorded, clean>>
       ELSE LET file_data == files[p].data
                backup_version == create_backup(file_data)
                loaded == load_backup_info(p)
                backup_info == unwrap_or_else(loaded, p)
            IN  IF Unchanged(backup_info.versions, backup_version)
                THEN /\ clean' = [clean EXCEPT ![p] = TRUE]
                     /\ UNCHANGED <<manifest, blocks, rng, recorded>>
                ELSE LET stored == StoreBlocks([dir |-> blocks, rng |-> rng],
                                       chunks(file_data, BlockSize),
                                       backup_version.block_hashes, 1)
                         versions == PushVersion(backup_info.versions, backup_version)
                     IN  /\ blocks' = stored.dir
                         /\ rng' = stored.rng
                         /\ manifest' = [manifest EXCEPT ![p] =
                                Saved([backup_info EXCEPT !.versions = versions])]
                         /\ recorded' = [recorded EXCEPT ![p] = Append(@,
                                [version |-> VersionNumber(backup_info.versions),
                                 content |-> file_data])]
                         /\ clean' = [clean EXCEPT ![p] = TRUE]

\* The environment rewrites or creates a watched file.
WriteFile(p, c) ==
    /\ UNCHANGED mvars
    /\ ~(rs.pc # "idle" /\ rs.path = p)
    /\ files[p] # FileOf(c)
    /\ files' = [files EXCEPT ![p] = FileOf(c)]
    /\ clean' = [clean EXCEPT ![p] = FALSE]
    /\ writes' = writes + 1
    /\ UNCHANGED <<manifest, blocks, encryption_key, rng, rs, recorded,
                   restores, faults>>

\* The environment deletes a watched file.
DeleteFile(p) ==
    /\ UNCHANGED mvars
    /\ ~(rs.pc # "idle" /\ rs.path = p)
    /\ files[p].exists
    /\ files' = [files EXCEPT ![p] = NoFileState]
    /\ clean' = [clean EXCEPT ![p] = FALSE]
    /\ writes' = writes + 1
    /\ UNCHANGED <<manifest, blocks, encryption_key, rng, rs, recorded,
                   restores, faults>>

\* restore_file lines 121-131 from block idx on: read, decrypt, decompress
\* and append every block, or stop at the first one that fails.
RECURSIVE ReadBlocks(_, _, _)
ReadBlocks(block_hashes, idx, file_data) ==
    IF idx > Len(block_hashes) THEN [ok |-> TRUE, data |-> file_data]
    ELSE LET block_path == get_block_path(block_hashes[idx])
         IN  IF block_path \notin DOMAIN blocks
             THEN [ok |-> FALSE, err |-> "BlockNotFound", block |-> idx]
             ELSE LET compressed == decrypt_block(blocks[block_path], encryption_key)
                  IN  IF ~compressed.ok
                      THEN [ok |-> FALSE, err |-> "DecryptionFailed", block |-> idx]
                      ELSE LET block_data == decompress(compressed.data)
                           IN  IF ~block_data.ok
                               THEN [ok |-> FALSE, err |-> "DecompressionFailed",
                                     block |-> idx]
                               ELSE ReadBlocks(block_hashes, idx + 1,
                                               file_data \o block_data.data)

\* restore_file lines 110-116: `iter().find(|ver| ver.version == v)` is the
\* first stored version with the number, `last()` the final element.
SelectVersion(versions, version) ==
    IF version.some
    THEN LET hits == {i \in DOMAIN versions : versions[i].version = version.v}
         IN  IF hits = {} THEN [ok |-> FALSE, err |-> "VersionNotFound"]
             ELSE [ok |-> TRUE,
                   value |-> versions[CHOOSE i \in hits : \A j \in hits : i <= j]]
    ELSE [ok |-> TRUE, value |-> Last(versions)]

\* restore_file lines 102-131: everything before the write of the target.
Assemble(p, version) ==
    LET loaded == load_backup_info(p)
    IN  IF ~loaded.ok THEN [ok |-> FALSE, err |-> loaded.err, block |-> 0]
        ELSE IF loaded.info.versions = <<>>
        THEN [ok |-> FALSE, err |-> "NoBackupVersions", block |-> 0]
        ELSE LET backup_version == SelectVersion(loaded.info.versions, version)
             IN  IF ~backup_version.ok
                 THEN [ok |-> FALSE, err |-> backup_version.err, block |-> 0]
                 ELSE ReadBlocks(backup_version.value.block_hashes, 1, <<>>)

\* Variant: the target is created (truncated) before the blocks are read.
TargetTruncated(p) == FileOf(<<>>)

\* What restore_file does to the target before it has assembled the content.
TargetBeforeAssembly(p) == files[p]

\* Storage::restore_file(p, version) up to line 131: an error returns at
\* once, otherwise the call goes on to fs::write(&path, file_data).
RestoreFile(p, version) ==
    /\ UNCHANGED mvars
    /\ rs.pc = "idle"
    /\ restores' = restores + 1
    /\ files' = [files EXCEPT ![p] = TargetBeforeAssembly(p)]
    /\ UNCHANGED <<manifest, blocks, encryption_key, rng, recorded, clean,
                   writes, faults>>
    /\ LET r == Assemble(p, version)
       IN  IF r.ok
           THEN rs' = [pc |-> "create", path |-> p, version |-> version,
                       buf |-> r.data, prev |-> files[p],
                       seen |-> Len(recorded[p]), off |-> 0,
                       block |-> 0, result |-> "none"]
           ELSE rs' = [Idle EXCEPT !.path = p, !.version = version,
                                   !.seen = Len(recorded[p]),
                                   !.block = r.block, !.result = r.err]

\* fs::write, first system call: the target is created or truncated.
RestoreCreate ==
    /\ UNCHANGED mvars
    /\ rs.pc = "create"
    /\ files' = [files EXCEPT ![rs.path] = FileOf(<<>>)]
    /\ clean' = [clean EXCEPT ![rs.path] = FALSE]
    /\ rs' = [rs EXCEPT !.pc = "write"]
    /\ UNCHANGED <<manifest, blocks, encryption_key, rng, recorded, writes,
                   restores, faults>>

\* fs::write, write_all: one write(2) call takes n of the remaining bytes.
RestoreWrite(n) ==
    /\ UNCHANGED mvars
    /\ rs.pc = "write"
    /\ n \in 1..(Len(rs.buf) - rs.off)
    /\ files' = [files EXCEPT ![rs.path].data =
                     @ \o SubSeq(rs.buf, rs.off + 1, rs.off + n)]
    /\ clean' = [clean EXCEPT ![rs.path] = FALSE]
    /\ rs' = [rs EXCEPT !.off = @ + n]
    /\ UNCHANGED <<manifest, blocks, encryption_key, rng, recorded, writes,
                   restores, faults>>

\* restore_file lines 136-137: the buffer is written, the call returns Ok.
RestoreReturn ==
    /\ UNCHANGED mvars
    /\ rs.pc = "write"
    /\ rs.off = Len(rs.buf)
    /\ rs' = [rs EXCEPT !.pc = "idle", !.result = "Ok"]
    /\ UNCHANGED <<files, manifest, blocks, encryption_key, rng, recorded,
                   clean, writes, restores, faults>>

\* fs::write fails (line 134, `?`) or the call is cut off while it writes.
RestoreInterrupt ==
    /\ UNCHANGED mvars
    /\ rs.pc \in {"create", "write"}
    /\ rs' = [rs EXCEPT !.pc = "idle", !.result = "WriteIo"]
    /\ UNCHANGED <<files, manifest, blocks, encryption_key, rng, recorded,
                   clean, writes, restores, faults>>

\* The version arguments a restore request is tried with.
Requests(p) == {None} \cup {Some(n) : n \in 1..(Len(recorded[p]) + 1)}

\* The calls served on the paths of P: backups from the monitoring loop,
\* restores from the HTTP handler.
Calls(P) ==
    \/ \E p \in P : BackupFile(p)
    \/ restores < MaxRestores /\ \E p \in P : \E v \in Requests(p) : RestoreFile(p, v)
    \/ RestoreCreate
    \/ \E n \in 1..MaxLen : RestoreWrite(n)
    \/ RestoreReturn
    \/ RestoreInterrupt

Next ==
    \/ Calls(Paths)
    \/ writes < MaxWrites /\ \E p \in Paths, c \in Contents : WriteFile(p, c)
    \/ writes < MaxWrites /\ \E p \in Paths : DeleteFile(p)

Spec == Init /\ [][Next]_vars

(* ------------------- tampering with the storage directory ------------- *)
\* A block object is removed from the storage directory.
DeleteBlock(block_path) ==
    /\ UNCHANGED mvars
    /\ block_path \in DOMAIN blocks
    /\ blocks' = [q \in (DOMAIN blocks) \ {block_path} |-> blocks[q]]
    /\ faults' = faults + 1
    /\ UNCHANGED <<files, manifest, encryption_key, rng, rs, recorded, clean,
                   writes, restores>>

\* A block object is damaged: its authentication tag no longer verifies.
CorruptBlock(block_path) ==
    /\ UNCHANGED mvars
    /\ block_path \in DOMAIN blocks
    /\ blocks[block_path].tag
    /\ blocks' = [blocks EXCEPT ![block_path].tag = FALSE]
    /\ faults' = faults + 1
    /\ UNCHANGED <<files, manifest, encryption_key, rng, rs, recorded, clean,
                   writes, restores>>

\* A block object is replaced by one sealed under the key whose payload is
\* not a zstd frame: it decrypts, and zstd::decode_all rejects it.
GarbleBlock(block_path) ==
    /\ UNCHANGED mvars
    /\ block_path \in DOMAIN blocks
    /\ blocks[block_path].tag
    /\ "zstd" \in DOMAIN blocks[block_path].sealed
    /\ blocks' = [blocks EXCEPT ![block_path].sealed = [raw |-> <<>>]]
    /\ faults' = faults + 1
    /\ UNCHANGED <<files, manifest, encryption_key, rng, rs, recorded, clean,
                   writes, restores>>

\* A manifest is removed, damaged, or replaced by one without versions.
TamperManifest(p, m) ==
    /\ UNCHANGED mvars
    /\ manifest[p] # m
    /\ manifest' = [manifest EXCEPT ![p] = m]
    /\ faults' = faults + 1
    /\ UNCHANGED <<files, blocks, encryption_key, rng, rs, recorded, clean,
                   writes, restores>>

Tampered(p) == {Missing, Unparsable, Saved([file_path |-> p, versions |-> <<>>])}

\* SpecFaults follows one path, with tampering.
FaultPaths == {RetentionPath}

NextFaults ==
    \/ Calls(FaultPaths)
    \/ writes < FaultWrites /\ \E p \in FaultPaths, c \in Contents : WriteFile(p, c)
    \/ faults < MaxFaults /\ \E block_path \in DOMAIN blocks : DeleteBlock(block_path)
    \/ faults < MaxFaults /\ \E block_path \in DOMAIN blocks : CorruptBlock(block_path)
    \/ faults < MaxFaults /\ \E block_path \in DOMAIN blocks : GarbleBlock(block_path)
    \/ faults < MaxFaults /\ \E p \in FaultPaths : \E m \in Tampered(p) : TamperManifest(p, m)

SpecFaults == Init /\ [][NextFaults]_vars

(* --------------------- one file with a long history ------------------- *)
\* Modifications of the file in SpecRetention: enough to trim twice.
RetentionWrites == MaxVersions + TrimCount + 2

\* The content the i-th modification gives the file: consecutive ones differ.
CycleContent(i) == [j \in 1..(1 + (i % MaxLen)) |-> i % 2]

\* The file is modified again once the monitoring loop has backed it up.
RetentionWrite ==
    /\ writes < RetentionWrites
    /\ restores = 0
    /\ writes = 0 \/ clean[RetentionPath]
    /\ WriteFile(RetentionPath, CycleContent(writes + 1))

\* Restore requests in SpecRetention: the latest version, the version number
\* the last backup was given, and the oldest number still stored.
RetentionRequests ==
    {None}
    \cup {Some(Last(recorded[RetentionPath]).version) : x \in
             {y \in {1} : recorded[RetentionPath] # <<>>}}
    \cup {Some(manifest[RetentionPath].info.versions[1].version) : x \in
             {y \in {1} : manifest[RetentionPath].kind = "json"}}

NextRetention ==
    \/ RetentionWrite
    \/ BackupFile(RetentionPath)
    \/ restores < MaxRestores /\ \E v \in RetentionRequests : RestoreFile(RetentionPath, v)
    \/ RestoreCreate
    \/ \E n \in 1..MaxLen : RestoreWrite(n)
    \/ RestoreReturn
    \/ RestoreInterrupt

SpecRetention == Init /\ [][NextRetention]_vars

(* ---------------------- the monitoring loop --------------------------- *)
\* Modifications of the watched files in SpecMonitor.
MonitorWrites == 3

\* The contents they give a file: one block, another one block, two blocks.
MonitorContents == {<<0>>, <<1>>, <<0, 1, 0>>}

\* The store side and the engine calls, which the loop and the handlers leave
\* alone.
restorevars == <<encryption_key, rs, clean, restores, diff, old_blocks, monitor,
                 sync, isolated, incremental>>

\* A watched file is created or rewritten; the watcher converts the
\* notification and the forwarding task sends it (monitor.rs:36-73).
MonitoredWrite(p, c) ==
    /\ files[p] # FileOf(c)
    /\ files' = [files EXCEPT ![p] = FileOf(c)]
    /\ LET event == FileEvent(p, IF files[p].exists THEN "Modified" ELSE "Created", now)
       IN  /\ channel' = Append(channel, event)
           /\ delivered' = Append(delivered, event)
    /\ writes' = writes + 1
    /\ UNCHANGED <<manifest, blocks, rng, recorded, faults, restorevars, mon, tasks,
                   detector, alerts, detector_lock, handlers, now, config,
                   last_check, handled>>

\* A watched file is removed; the event is sent the same way.
MonitoredDelete(p) ==
    /\ files[p].exists
    /\ files' = [files EXCEPT ![p] = NoFileState]
    /\ LET event == FileEvent(p, "Deleted", now)
       IN  /\ channel' = Append(channel, event)
           /\ delivered' = Append(delivered, event)
    /\ writes' = writes + 1
    /\ UNCHANGED <<manifest, blocks, rng, recorded, faults, restorevars, mon, tasks,
                   detector, alerts, detector_lock, handlers, now, config,
                   last_check, handled>>

\* Seconds the clock advances in one step, and the time it stops at.
TickSeconds == 30
MaxClock == 90

\* Time passes.
Tick ==
    /\ now + TickSeconds <= MaxClock
    /\ now' = now + TickSeconds
    /\ UNCHANGED <<files, manifest, blocks, rng, recorded, writes, faults,
                   restorevars, channel, mon, tasks, detector, alerts,
                   detector_lock, handlers, config, last_check, delivered, handled>>

\* start_monitoring line 140: monitor.next_event().await returns an event.
NextEvent ==
    /\ mon.pc = "recv"
    /\ channel # <<>>
    /\ mon' = [pc |-> "lock", event |-> Head(channel), slot |-> 0]
    /\ channel' = Tail(channel)
    /\ handled' = Append(handled, [event |-> Head(channel), processed |-> 0,
                                   checked |-> FALSE, existed |-> FALSE,
                                   backups |-> 0, result |-> "none"])
    /\ UNCHANGED <<files, manifest, blocks, rng, recorded, writes, faults,
                   restorevars, tasks, detector, alerts, detector_lock, handlers,
                   now, config, last_check, delivered>>

\* start_monitoring line 142: detector.write().await.
DetectorWrite ==
    /\ mon.pc = "lock"
    /\ WriteGranted(detector_lock)
    /\ detector_lock' = [detector_lock EXCEPT !.writer = TRUE]
    /\ mon' = [mon EXCEPT !.pc = "push"]
    /\ UNCHANGED <<files, manifest, blocks, rng, recorded, writes, faults,
                   restorevars, channel, tasks, detector, alerts, handlers, now,
                   config, last_check, delivered, handled>>

\* process_event line 38.
ProcessEventPush ==
    /\ mon.pc = "push"
    /\ detector' = [detector EXCEPT !.event_window = push_back(@, mon.event)]
    /\ handled' = [handled EXCEPT ![Len(handled)].processed = @ + 1]
    /\ mon' = [mon EXCEPT !.pc = "count"]
    /\ UNCHANGED <<files, manifest, blocks, rng, recorded, writes, faults,
                   restorevars, channel, tasks, alerts, detector_lock, handlers,
                   now, config, last_check, delivered>>

\* process_event line 39.
ProcessEventCount ==
    /\ mon.pc = "count"
    /\ detector' = [detector EXCEPT !.files_monitored = @ + 1]
    /\ mon' = [mon EXCEPT !.pc = "evict"]
    /\ UNCHANGED <<files, manifest, blocks, rng, recorded, writes, faults,
                   restorevars, channel, tasks, alerts, detector_lock, handlers,
                   now, config, last_check, delivered, handled>>

\* process_event lines 42-51.
ProcessEventEvict ==
    /\ mon.pc = "evict"
    /\ detector' = [detector EXCEPT
                      !.event_window = Evict(@, cutoff_time(config, now))]
    /\ mon' = [mon EXCEPT !.pc = "check"]
    /\ UNCHANGED <<files, manifest, blocks, rng, recorded, writes, faults,
                   restorevars, channel, tasks, alerts, detector_lock, handlers,
                   now, config, last_check, delivered, handled>>

\* start_monitoring lines 145-156: check_threat, and the alert stored.
CheckThreat ==
    /\ mon.pc = "check"
    /\ LET threat == check_threat(detector, config, now)
       IN  /\ last_check' = Checked(detector, config, now, FALSE)
           /\ alerts' = IF threat.some THEN PushAlert(alerts, threat.v) ELSE alerts
    /\ mon' = [mon EXCEPT !.pc = "exists"]
    /\ UNCHANGED <<files, manifest, blocks, rng, recorded, writes, faults,
                   restorevars, channel, tasks, detector, detector_lock, handlers,
                   now, config, delivered, handled>>

\* The slots no execution occupies.
FreeSlots == {s \in Slots : tasks[s].pc = "idle"}

\* start_monitoring lines 159-160: `event.path.exists()`, then the call of
\* storage.backup_file; without it the iteration ends and the guard drops.
PathExists ==
    /\ mon.pc = "exists"
    /\ IF exists(mon.event.path)
       THEN /\ FreeSlots # {}
            /\ LET s == CHOOSE x \in FreeSlots : \A y \in FreeSlots : x <= y
               IN  /\ tasks' = [tasks EXCEPT ![s] =
                              [IdleTask EXCEPT !.pc = "start", !.path = mon.event.path]]
                   /\ mon' = [mon EXCEPT !.pc = "await", !.slot = s]
            /\ handled' = [handled EXCEPT ![Len(handled)].checked = TRUE,
                                          ![Len(handled)].existed = TRUE,
                                          ![Len(handled)].backups = @ + 1]
            /\ UNCHANGED detector_lock
       ELSE /\ mon' = [mon EXCEPT !.pc = "recv"]
            /\ detector_lock' = [detector_lock EXCEPT !.writer = FALSE]
            /\ handled' = [handled EXCEPT ![Len(handled)].checked = TRUE]
            /\ UNCHANGED tasks
    /\ UNCHANGED <<files, manifest, blocks, rng, recorded, writes, faults,
                   restorevars, channel, detector, alerts, handlers, now, config,
                   last_check, delivered>>

\* The execution in slot s returns `result`.
Return(s, result) == [tasks EXCEPT ![s] = [IdleTask EXCEPT !.result = result]]

\* backup_file lines 40-42.
BackupExists(s) ==
    /\ tasks[s].pc = "start"
    /\ tasks' = IF ~exists(tasks[s].path) THEN Return(s, "Ok")
                ELSE [tasks EXCEPT ![s].pc = "create"]
    /\ UNCHANGED <<files, manifest, blocks, rng, recorded, writes, faults,
                   restorevars, channel, mon, detector, alerts, detector_lock,
                   handlers, now, config, last_check, delivered, handled>>

\* The I/O of a step may fail while the budget of failures lasts.
Failures == IF faults < MaxFaults THEN {FALSE, TRUE} ELSE {FALSE}

\* backup_file lines 45-64: create_backup reads the file and digests it, the
\* manifest is loaded, and an unchanged file ends the call.
BackupCreate(s, fail) ==
    /\ tasks[s].pc = "create"
    /\ faults' = IF fail THEN faults + 1 ELSE faults
    /\ LET p == tasks[s].path
           backup_version == create_backup(FileAt(p).data)
           loaded == load_backup_info(p)
           versions == unwrap_or_else(loaded, p).versions
       IN  tasks' = IF fail \/ ~FileAt(p).exists THEN Return(s, "Err")
                    ELSE IF Unchanged(versions, backup_version) THEN Return(s, "Ok")
                    ELSE [tasks EXCEPT ![s].pc = "store",
                                       ![s].backup_version = backup_version,
                                       ![s].versions = versions]
    /\ UNCHANGED <<files, manifest, blocks, rng, recorded, writes, restorevars,
                   channel, mon, detector, alerts, detector_lock, handlers, now,
                   config, last_check, delivered, handled>>

\* backup_file lines 67-81: the file is read again and its chunks are stored
\* under the digests create_backup computed; indexing block_hashes past its
\* end panics.  k chunks are handled before a write fails.
BackupStore(s, k) ==
    /\ tasks[s].pc = "store"
    /\ LET p == tasks[s].path
           block_hashes == tasks[s].backup_version.block_hashes
           cs == chunks(FileAt(p).data, BlockSize)
           n == IF Len(cs) < Len(block_hashes) THEN Len(cs) ELSE Len(block_hashes)
       IN  IF ~FileAt(p).exists
           THEN /\ k = 0
                /\ tasks' = Return(s, "Err")
                /\ UNCHANGED <<blocks, rng, faults>>
           ELSE /\ k \in 0..n
                /\ k < n => faults < MaxFaults
                /\ faults' = IF k < n THEN faults + 1 ELSE faults
                /\ LET stored == StoreBlocks([dir |-> blocks, rng |-> rng],
                                             SubSeq(cs, 1, k), block_hashes, 1)
                   IN  /\ blocks' = stored.dir
                       /\ rng' = stored.rng
                /\ tasks' = IF k < n THEN Return(s, "Err")
                            ELSE IF Len(cs) > Len(block_hashes) THEN Return(s, "Panic")
                            ELSE [tasks EXCEPT ![s].pc = "save"]
    /\ UNCHANGED <<files, manifest, recorded, writes, restorevars, channel, mon,
                   detector, alerts, detector_lock, handlers, now, config,
                   last_check, delivered, handled>>

\* What a failed fs::write can leave of the manifest it was writing.
AfterFailedSave(p) == {manifest[p], Unparsable}

\* backup_file lines 84-98: number the version, push it, trim, save.
BackupSave(s, fail) ==
    /\ tasks[s].pc = "save"
    /\ faults' = IF fail THEN faults + 1 ELSE faults
    /\ LET p == tasks[s].path
           versions == PushVersion(tasks[s].versions, tasks[s].backup_version)
       IN  IF fail
           THEN /\ \E m \in AfterFailedSave(p) : manifest' = [manifest EXCEPT ![p] = m]
                /\ tasks' = Return(s, "Err")
                /\ UNCHANGED recorded
           ELSE /\ manifest' = [manifest EXCEPT ![p] =
                                   Saved([file_path |-> p, versions |-> versions])]
                /\ recorded' = [recorded EXCEPT ![p] = Append(@,
                                   [version |-> VersionNumber(tasks[s].versions),
                                    content |-> Unhash(tasks[s].backup_version.file_hash)])]
                /\ tasks' = Return(s, "Ok")
    /\ UNCHANGED <<files, blocks, rng, writes, restorevars, channel, mon, detector,
                   alerts, detector_lock, handlers, now, config, last_check,
                   delivered, handled>>

\* Variant: backup_file is started and not awaited.
Awaited_detached(task) == TRUE

\* The loop goes on when the backup_file call it awaits has returned.
Awaited(task) == task.pc = "idle"

\* Variant: the error is propagated with `?` and ends start_monitoring.
AfterBackupError_propagated == "stopped"

\* start_monitoring lines 160-162: an error is reported with warn!, and the
\* loop takes the next event.
AfterBackupError == "recv"

\* start_monitoring lines 160-164: the awaited call returns (or unwinds the
\* task with its panic); the iteration ends and the guard drops.
LoopResume ==
    /\ mon.pc = "await"
    /\ Awaited(tasks[mon.slot])
    /\ LET result == tasks[mon.slot].result
       IN  /\ mon' = [mon EXCEPT !.pc = CASE result = "Panic" -> "crashed"
                                          [] result = "Err" -> AfterBackupError
                                          [] OTHER -> "recv"]
           /\ handled' = [handled EXCEPT ![Len(handled)].result = result]
    /\ detector_lock' = [detector_lock EXCEPT !.writer = FALSE]
    /\ UNCHANGED <<files, manifest, blocks, rng, recorded, writes, faults,
                   restorevars, channel, tasks, detector, alerts, handlers, now,
                   config, last_check, delivered>>

\* get_status line 173 / get_metrics line 227: detector.read().await.
HandlerRead(h) ==
    /\ handlers[h] = "idle"
    /\ ReadGranted(detector_lock)
    /\ detector_lock' = [detector_lock EXCEPT !.readers = @ + 1]
    /\ handlers' = [handlers EXCEPT ![h] = "reading"]
    /\ UNCHANGED <<files, manifest, blocks, rng, recorded, writes, faults,
                   restorevars, channel, mon, tasks, detector, alerts, now, config,
                   last_check, delivered, handled>>

\* get_status lines 174-188 / get_metrics lines 228-246: files_monitored is
\* read, the response is built and the guard drops.
HandlerRespond(h) ==
    /\ handlers[h] = "reading"
    /\ detector_lock' = [detector_lock EXCEPT !.readers = @ - 1]
    /\ handlers' = [handlers EXCEPT ![h] = "idle"]
    /\ UNCHANGED <<files, manifest, blocks, rng, recorded, writes, faults,
                   restorevars, channel, mon, tasks, detector, alerts, now, config,
                   last_check, delivered, handled>>

NextMonitor ==
    \/ writes < MonitorWrites /\ \E p \in Paths, c \in MonitorContents : MonitoredWrite(p, c)
    \/ writes < MonitorWrites /\ \E p \in Paths : MonitoredDelete(p)
    \/ NextEvent
    \/ DetectorWrite
    \/ ProcessEventPush
    \/ ProcessEventCount
    \/ ProcessEventEvict
    \/ CheckThreat
    \/ PathExists
    \/ \E s \in Slots : BackupExists(s)
    \/ \E s \in Slots : \E fail \in Failures : BackupCreate(s, fail)
    \/ \E s \in Slots : \E k \in 0..MaxLen : BackupStore(s, k)
    \/ \E s \in Slots : \E fail \in Failures : BackupSave(s, fail)
    \/ LoopResume
    \/ \E h \in Handlers : HandlerRead(h)
    \/ \E h \in Handlers : HandlerRespond(h)

SpecMonitor == Init /\ [][NextMonitor]_vars

\* The loop on one watched file while time passes.
NextWindow ==
    \/ writes < MonitorWrites /\ \E c \in MonitorContents : MonitoredWrite(RetentionPath, c)
    \/ writes < MonitorWrites /\ MonitoredDelete(RetentionPath)
    \/ Tick
    \/ NextEvent
    \/ DetectorWrite
    \/ ProcessEventPush
    \/ ProcessEventCount
    \/ ProcessEventEvict
    \/ CheckThreat
    \/ PathExists
    \/ \E s \in Slots : BackupExists(s)
    \/ \E s \in Slots : \E fail \in Failures : BackupCreate(s, fail)
    \/ \E s \in Slots : \E k \in 0..MaxLen : BackupStore(s, k)
    \/ \E s \in Slots : \E fail \in Failures : BackupSave(s, fail)
    \/ LoopResume

SpecWindow == Init /\ [][NextWindow]_vars

(* ------------------- check_threat on windows of events ----------------- *)
\* The entropy threshold of the second configuration (thousandths of a bit),
\* the events of a burst that makes its extension a rename pattern, and the
\* direct calls of check_threat followed.
LowEntropyThreshold == 950
PatternBurst == 4
MaxCalls == 2

\* The detection configurations: the default one, and the default one with an
\* entropy threshold the files of the model can exceed.
Configs ==
    {DefaultDetection,
     [DefaultDetection EXCEPT !.entropy_threshold = LowEntropyThreshold]}

\* k events about one path.
Burst(path, k) == [i \in 1..k |-> FileEvent(path, "Modified", 0)]

\* The windows followed: bursts about files of seven extensions, the events
\* about a.dcm last, up to one event more than the rapid-change threshold.
Windows ==
    {Burst("c.hl7", hl7) \o Burst("d.xml", xml) \o Burst("e.json", jsn)
        \o Burst("f.db", db) \o Burst("g.txt", txt) \o Burst("h.locked", locked)
        \o Burst("a.dcm", dcm) :
        hl7 \in {0, PatternBurst}, xml \in {0, PatternBurst},
        jsn \in {0, PatternBurst}, db \in {0, PatternBurst},
        txt \in {0, PatternBurst - 1, PatternBurst},
        locked \in {0, 1, PatternBurst},
        dcm \in {0, 1, PatternBurst,
                 DefaultDetection.rapid_change_threshold - 1,
                 DefaultDetection.rapid_change_threshold,
                 DefaultDetection.rapid_change_threshold + 1}}

\* What a.dcm can be on disk: absent, empty, one byte value, two byte values
\* evenly or unevenly spread, or two byte values that cannot be read.
ProbeFiles ==
    {NoFileState, FileOf(<<>>), FileOf(<<0, 0>>), FileOf(<<0, 1>>), FileOf(<<0, 0, 1>>),
     Unreadable}

\* The detector after it processed the events of one of the windows, under
\* one of the configurations.
InitCheckThreat ==
    /\ \E f \in ProbeFiles :
        files = [p \in Paths |-> IF p = RetentionPath THEN f ELSE NoFileState]
    /\ manifest = [p \in Paths |-> Missing]
    /\ blocks = <<>>
    /\ encryption_key = 1
    /\ rng = 0
    /\ rs = Idle
    /\ recorded = [p \in Paths |-> <<>>]
    /\ clean = [p \in Paths |-> FALSE]
    /\ writes = 0
    /\ restores = 0
    /\ faults = 0
    /\ channel = <<>>
    /\ mon = [pc |-> "recv", event |-> NoEvent, slot |-> 0]
    /\ tasks = [s \in Slots |-> IdleTask]
    /\ \E w \in Windows :
        detector = [NewDetector EXCEPT !.event_window = w, !.files_monitored = Len(w)]
    /\ alerts = <<>>
    /\ detector_lock = [writer |-> FALSE, readers |-> 0]
    /\ handlers = [h \in Handlers |-> "idle"]
    /\ now = 0
    /\ config \in Configs
    /\ last_check = [result |-> None, window |-> <<>>, file |-> NoFileState,
                     calls |-> 0, repeat |-> FALSE]
    /\ delivered = <<>>
    /\ handled = <<>>
    /\ diff = NoDiff
    /\ old_blocks = {}
    /\ monitor = NewMonitor(DefaultExtensions)
    /\ sync = NewSync
    /\ isolated = NewIsolated
    /\ incremental = NewIncremental

\* ThreatDetector::check_threat called on the detector as it is.
CallCheckThreat ==
    /\ last_check.calls < MaxCalls
    /\ last_check' = Checked(detector, config, now, TRUE)
    /\ UNCHANGED <<files, manifest, blocks, rng, recorded, writes, faults,
                   restorevars, channel, mon, tasks, detector, alerts,
                   detector_lock, handlers, now, config, delivered, handled>>

\* Another process rewrites or removes a.dcm.
ProbeWrite(f) ==
    /\ files[RetentionPath] # f
    /\ files' = [files EXCEPT ![RetentionPath] = f]
    /\ UNCHANGED <<manifest, blocks, rng, recorded, writes, faults, restorevars,
                   channel, mon, tasks, detector, alerts, detector_lock, handlers,
                   now, config, last_check, delivered, handled>>

NextCheckThreat ==
    \/ CallCheckThreat
    \/ \E f \in ProbeFiles : ProbeWrite(f)

SpecCheckThreat == InitCheckThreat /\ [][NextCheckThreat]_vars

(* ------------------------- process restarts ---------------------------- *)
\* Restarts of the service, modifications of the file and the contents they
\* give it in SpecRestart.
MaxRestarts == 1
RestartWrites == 3
RestartContents == {<<0>>, <<1>>, <<0, 1, 0>>}

\* Variant: the key of the process before is read back.
generate_key_persisted(previous) == previous

\* Crypto::generate_key: 32 fresh random bytes, a key no earlier process had.
\* The model numbers the keys.
generate_key(previous) == previous + 1

\* The service is stopped and started again: Storage::new generates the key
\* of the new process; the storage directory is what the old process left.
Restart ==
    /\ encryption_key <= MaxRestarts
    /\ rs.pc = "idle"
    /\ encryption_key' = generate_key(encryption_key)
    /\ old_blocks' = DOMAIN blocks
    /\ rs' = Idle
    /\ UNCHANGED <<files, manifest, blocks, rng, recorded, clean, writes,
                   restores, faults, channel, mon, tasks, detector, alerts,
                   detector_lock, handlers, now, config, last_check, delivered,
                   handled, diff, monitor, sync, isolated, incremental>>

NextRestart ==
    \/ Calls(FaultPaths)
    \/ writes < RestartWrites
        /\ \E p \in FaultPaths, c \in RestartContents : WriteFile(p, c)
    \/ Restart

SpecRestart == Init /\ [][NextRestart]_vars

(* ------------------- calculate_incremental_changes --------------------- *)
\* The block size and the contents of test_incremental_changes:
\* b"Hello World!!!" and b"Hello Rust!!!!".
TestBlockSize == 10
old_data == <<72, 101, 108, 108, 111, 32, 87, 111, 114, 108, 100, 33, 33, 33>>
new_data == <<72, 101, 108, 108, 111, 32, 82, 117, 115, 116, 33, 33, 33, 33>>

\* The calls followed: the storage engine on every content against the block
\* digests of every content, and the call of test_incremental_changes.
DiffCalls ==
    {[engine |-> BackupEngine(block_size), current_data |-> c,
      previous_blocks |-> engine_block_hashes(BackupEngine(block_size), o)] :
        c \in Contents, o \in Contents}
    \cup {[engine |-> BackupEngine(TestBlockSize), current_data |-> new_data,
           previous_blocks |-> engine_block_hashes(BackupEngine(TestBlockSize), old_data)]}

InitDiff ==
    /\ files = [p \in Paths |-> NoFileState]
    /\ manifest = [p \in Paths |-> Missing]
    /\ blocks = <<>>
    /\ encryption_key = 1
    /\ rng = 0
    /\ rs = Idle
    /\ recorded = [p \in Paths |-> <<>>]
    /\ clean = [p \in Paths |-> FALSE]
    /\ writes = 0
    /\ restores = 0
    /\ faults = 0
    /\ channel = <<>>
    /\ mon = [pc |-> "recv", event |-> NoEvent, slot |-> 0]
    /\ tasks = [s \in Slots |-> IdleTask]
    /\ detector = NewDetector
    /\ alerts = <<>>
    /\ detector_lock = [writer |-> FALSE, readers |-> 0]
    /\ handlers = [h \in Handlers |-> "idle"]
    /\ now = 0
    /\ config = DefaultDetection
    /\ last_check = [result |-> None, window |-> <<>>, file |-> NoFileState,
                     calls |-> 0, repeat |-> FALSE]
    /\ delivered = <<>>
    /\ handled = <<>>
    /\ \E call \in DiffCalls :
        diff = [engine |-> call.engine, current_data |-> call.current_data,
                previous_blocks |-> call.previous_blocks, changes |-> <<>>,
                called |-> FALSE]
    /\ old_blocks = {}
    /\ monitor = NewMonitor(DefaultExtensions)
    /\ sync = NewSync
    /\ isolated = NewIsolated
    /\ incremental = NewIncremental

\* BackupEngine::calculate_incremental_changes is called on the inputs.
CalculateIncrementalChanges ==
    /\ ~diff.called
    /\ diff' = [diff EXCEPT !.called = TRUE,
                            !.changes = calculate_incremental_changes(
                                diff.engine, diff.current_data, diff.previous_blocks)]
    /\ UNCHANGED <<files, manifest, blocks, encryption_key, rng, rs, recorded,
                   clean, writes, restores, faults, channel, mon, tasks, detector,
                   alerts, detector_lock, handlers, now, config, last_check,
                   delivered, handled, old_blocks, monitor, sync, isolated, incremental>>

NextDiff == CalculateIncrementalChanges

SpecDiff == InitDiff /\ [][NextDiff]_vars

(* ----------------------- the alert log filling up ---------------------- *)
\* Modifications of the watched file in SpecAlerts.
AlertWrites == 3

\* The contents they give the file: two byte values evenly spread.
AlertContents == {<<0, 1>>, <<1, 0>>}

\* The events the loop has handled before the run starts: none, one fewer
\* than the rapid-change threshold, and enough to have the alert log one
\* short of full or full.
EventsBefore ==
    {0,
     DefaultDetection.rapid_change_threshold - 1,
     DefaultDetection.rapid_change_threshold + MaxAlerts - 1,
     DefaultDetection.rapid_change_threshold + MaxAlerts}

\* The window after n modifications of a.dcm within the same second.
WindowAfter(n) ==
    [i \in 1..n |-> FileEvent(RetentionPath, IF i = 1 THEN "Created" ELSE "Modified", 0)]

\* The alert check_threat returns on the window after n modifications, n above
\* the threshold, while a.dcm holds two byte values evenly spread (1 bit per
\* byte): the rapid-change and the entropy factor.
AlertAfter(n) ==
    [timestamp |-> 0,
     score |-> 70,
     description |-> << <<"Rapid file changes detected: {} files/min", n>>,
                        <<"; ", 0>>,
                        <<"High entropy detected: {:.2} bits/byte", 1000>> >>,
     file_path |-> RetentionPath,
     threat_type |-> "Ransomware"]

\* The service after the loop handled n modifications of a.dcm under the
\* configuration with the low entropy threshold: each check_threat on a
\* window longer than the threshold stored its alert.  The backups so far
\* returned Err; no I/O failure happens from here on.
InitAlerts ==
    /\ \E n \in EventsBefore :
        /\ files = [p \in Paths |-> IF p = RetentionPath /\ n > 0
                                    THEN FileOf(<<0, 1>>) ELSE NoFileState]
        /\ writes = 0
        /\ config = [DefaultDetection EXCEPT !.entropy_threshold = LowEntropyThreshold]
        /\ now = 0
        /\ detector = [NewDetector EXCEPT !.event_window = WindowAfter(n),
                                          !.files_monitored = n]
        /\ last_check = [result |-> None, window |-> <<>>, file |-> NoFileState,
                         calls |-> 0, repeat |-> FALSE]
        /\ alerts = [i \in 1..(IF n > config.rapid_change_threshold
                               THEN n - config.rapid_change_threshold ELSE 0) |->
                        AlertAfter(config.rapid_change_threshold + i)]
    /\ manifest = [p \in Paths |-> Missing]
    /\ blocks = <<>>
    /\ encryption_key = 1
    /\ rng = 0
    /\ rs = Idle
    /\ recorded = [p \in Paths |-> <<>>]
    /\ clean = [p \in Paths |-> FALSE]
    /\ restores = 0
    /\ faults = MaxFaults
    /\ channel = <<>>
    /\ mon = [pc |-> "recv", event |-> NoEvent, slot |-> 0]
    /\ tasks = [s \in Slots |-> IdleTask]
    /\ detector_lock = [writer |-> FALSE, readers |-> 0]
    /\ handlers = [h \in Handlers |-> "idle"]
    /\ delivered = <<>>
    /\ handled = <<>>
    /\ diff = NoDiff
    /\ old_blocks = {}
    /\ monitor = NewMonitor(DefaultExtensions)
    /\ sync = NewSync
    /\ isolated = NewIsolated
    /\ incremental = NewIncremental

\* The file is rewritten again.
AlertWrite ==
    /\ writes < AlertWrites
    /\ \E c \in AlertContents : MonitoredWrite(RetentionPath, c)

NextAlerts ==
    \/ AlertWrite
    \/ NextEvent
    \/ DetectorWrite
    \/ ProcessEventPush
    \/ ProcessEventCount
    \/ ProcessEventEvict
    \/ CheckThreat
    \/ PathExists
    \/ \E s \in Slots : BackupExists(s)
    \/ \E s \in Slots : \E fail \in Failures : BackupCreate(s, fail)
    \/ \E s \in Slots : \E k \in 0..MaxLen : BackupStore(s, k)
    \/ \E s \in Slots : \E fail \in Failures : BackupSave(s, fail)
    \/ LoopResume

SpecAlerts == InitAlerts /\ [][NextAlerts]_vars

(* ------------------ the event source: FileMonitor::new ----------------- *)
\* The events the watcher reports before it is followed no further.
MaxWatched == 3

\* The paths the watcher reports: two with an extension, one without.
WatchedPaths == {"a.dcm", "g.txt", "README"}

\* notify::EventKind; "Access" stands for every kind convert_event drops.
EventKinds == {"Create", "Modify", "Remove", "Access"}

\* Event.paths: none, one, or two of which one has no extension.
EventPaths ==
    {<<>>} \cup {<<p>> : p \in WatchedPaths}
    \cup {<<"README", "a.dcm">>, <<"a.dcm", "README">>}

\* MonitoringConfig.file_extensions: the default list, an empty list, and a
\* list with an entry written without its dot.
AllowLists == {DefaultExtensions, {}, {<<".", "dcm">>, <<"", "txt">>}}

InitFilter ==
    /\ files = [p \in Paths |-> NoFileState]
    /\ manifest = [p \in Paths |-> Missing]
    /\ blocks = <<>>
    /\ encryption_key = 1
    /\ rng = 0
    /\ rs = Idle
    /\ recorded = [p \in Paths |-> <<>>]
    /\ clean = [p \in Paths |-> FALSE]
    /\ writes = 0
    /\ restores = 0
    /\ faults = 0
    /\ channel = <<>>
    /\ mon = [pc |-> "recv", event |-> NoEvent, slot |-> 0]
    /\ tasks = [s \in Slots |-> IdleTask]
    /\ detector = NewDetector
    /\ alerts = <<>>
    /\ detector_lock = [writer |-> FALSE, readers |-> 0]
    /\ handlers = [h \in Handlers |-> "idle"]
    /\ now = 0
    /\ config = DefaultDetection
    /\ last_check = [result |-> None, window |-> <<>>, file |-> NoFileState,
                     calls |-> 0, repeat |-> FALSE]
    /\ delivered = <<>>
    /\ handled = <<>>
    /\ diff = NoDiff
    /\ old_blocks = {}
    /\ \E extensions \in AllowLists : monitor = NewMonitor(extensions)
    /\ sync = NewSync
    /\ isolated = NewIsolated
    /\ incremental = NewIncremental

\* FileMonitor::new lines 36-46: the watcher's callback converts the event
\* it reports and sends the FileEvent, if there is one, into the channel of
\* the forwarding thread.
Watch(event) ==
    /\ Len(monitor.watched) < MaxWatched
    /\ LET file_event == convert_event(event, now)
       IN  monitor' = [monitor EXCEPT
                         !.watched = Append(@, event),
                         !.rx = IF file_event.some THEN Append(@, file_event.v) ELSE @]
    /\ UNCHANGED <<files, manifest, blocks, encryption_key, rng, rs, recorded,
                   clean, writes, restores, faults, channel, mon, tasks, detector,
                   alerts, detector_lock, handlers, now, config, last_check,
                   delivered, handled, diff, old_blocks, sync, isolated, incremental>>

\* FileMonitor::new lines 62-72: the forwarding thread receives an event and
\* sends it to the receiver of next_event when its extension is allowed.
Forward ==
    /\ monitor.rx # <<>>
    /\ monitor' = [monitor EXCEPT !.rx = Tail(@)]
    /\ LET event == Head(monitor.rx)
       IN  IF Allowed(monitor.extensions, event)
           THEN /\ channel' = Append(channel, event)
                /\ delivered' = Append(delivered, event)
           ELSE UNCHANGED <<channel, delivered>>
    /\ UNCHANGED <<files, manifest, blocks, encryption_key, rng, rs, recorded,
                   clean, writes, restores, faults, mon, tasks, detector, alerts,
                   detector_lock, handlers, now, config, last_check, handled,
                   diff, old_blocks, sync, isolated, incremental>>

NextFilter ==
    \/ \E kind \in EventKinds, paths \in EventPaths : Watch(Event(kind, paths))
    \/ Forward

SpecFilter == InitFilter /\ [][NextFilter]_vars

(* ------------- the detector behind the default configuration ---------- *)
\* The paths the watcher reports: one of the allow-list, one suspicious.
DefaultPaths == {"a.dcm", "h.locked"}

\* What a.dcm can be on disk.
DefaultFiles == {NoFileState, FileOf(<<0, 1>>), Unreadable, Ciphertext}

\* What the watcher reported before: bursts about files of seven
\* extensions, the five of the allow-list among them, the events about
\* a.dcm last, up to one event more than the rapid-change threshold.
DefaultWindows ==
    {Burst("c.hl7", k) \o Burst("d.xml", k) \o Burst("e.json", k)
        \o Burst("f.db", k) \o Burst("g.txt", k) \o Burst("h.locked", locked)
        \o Burst("a.dcm", dcm) :
        k \in {0, PatternBurst}, locked \in {0, 1},
        dcm \in {0, 1, PatternBurst,
                 DefaultDetection.rapid_change_threshold - 1,
                 DefaultDetection.rapid_change_threshold,
                 DefaultDetection.rapid_change_threshold + 1}}

\* Config::default, the events of a window that the forwarding thread let
\* through already in the detector.
InitDefault ==
    /\ \E f \in DefaultFiles :
        files = [p \in Paths |-> IF p = RetentionPath THEN f ELSE NoFileState]
    /\ manifest = [p \in Paths |-> Missing]
    /\ blocks = <<>>
    /\ encryption_key = 1
    /\ rng = 0
    /\ rs = Idle
    /\ recorded = [p \in Paths |-> <<>>]
    /\ clean = [p \in Paths |-> FALSE]
    /\ writes = 0
    /\ restores = 0
    /\ faults = 0
    /\ channel = <<>>
    /\ mon = [pc |-> "recv", event |-> NoEvent, slot |-> 0]
    /\ tasks = [s \in Slots |-> IdleTask]
    /\ \E w \in DefaultWindows :
        LET Passes(event) == Allowed(DefaultExtensions, event)
            passed == SelectSeq(w, Passes)
        IN  detector = [NewDetector EXCEPT !.event_window = passed,
                                           !.files_monitored = Len(passed)]
    /\ alerts = <<>>
    /\ detector_lock = [writer |-> FALSE, readers |-> 0]
    /\ handlers = [h \in Handlers |-> "idle"]
    /\ now = 0
    /\ config = DefaultDetection
    /\ last_check = [result |-> None, window |-> <<>>, file |-> NoFileState,
                     calls |-> 0, repeat |-> FALSE]
    /\ delivered = <<>>
    /\ handled = <<>>
    /\ diff = NoDiff
    /\ old_blocks = {}
    /\ monitor = NewMonitor(DefaultExtensions)
    /\ sync = NewSync
    /\ isolated = NewIsolated
    /\ incremental = NewIncremental

\* start_monitoring lines 140-143: the loop receives the next event and the
\* detector processes it.
Observe ==
    /\ channel # <<>>
    /\ channel' = Tail(channel)
    /\ detector' = process_event(detector, Head(channel), config, now)
    /\ UNCHANGED <<files, manifest, blocks, rng, recorded, writes, faults,
                   restorevars, mon, tasks, alerts, detector_lock, handlers, now,
                   config, last_check, delivered, handled>>

NextDefault ==
    \/ \E p \in DefaultPaths : Watch(Event("Modify", <<p>>))
    \/ Forward
    \/ Observe
    \/ CallCheckThreat
    \/ \E f \in DefaultFiles : ProbeWrite(f)

SpecDefault == InitDefault /\ [][NextDefault]_vars

(* ------------------ the IsolatedWriteManager of lib.rs ------------------ *)
\* The state of the application of main.rs.
appvars == <<files, manifest, blocks, encryption_key, rng, rs, recorded, clean,
             writes, restores, faults, channel, mon, tasks, detector, alerts,
             detector_lock, handlers, now, config, last_check, delivered,
             handled, diff, old_blocks, monitor, sync>>

\* IsolatedWriteManager::activate_isolation: the flag first, then the clean
\* log directory when it is missing.
ActivateIsolation ==
    /\ isolated' = [isolated EXCEPT
                      !.manager.is_isolation_active = TRUE,
                      !.dirs = IF clean_log_dir \in isolated.dirs THEN @
                               ELSE create_dir_all(@, clean_log_dir)]
    /\ UNCHANGED <<appvars, incremental>>

\* IsolatedWriteManager::deactivate_isolation.
DeactivateIsolation ==
    /\ isolated' = [isolated EXCEPT !.manager.is_isolation_active = FALSE]
    /\ UNCHANGED <<appvars, incremental>>

\* A caller redirects a write.
RedirectWrite(original_path, data) ==
    /\ isolated.calls < MaxRedirects
    /\ isolated' = [redirect_write(isolated, original_path, data)
                      EXCEPT !.calls = @ + 1]
    /\ UNCHANGED <<appvars, incremental>>

\* A second passes on the clock SystemTime::now reads.
Elapse ==
    /\ isolated.clock < MaxSeconds
    /\ isolated' = [isolated EXCEPT !.clock = @ + 1]
    /\ UNCHANGED <<appvars, incremental>>

NextIsolated ==
    \/ ActivateIsolation
    \/ DeactivateIsolation
    \/ \E original_path \in OriginalPaths : \E data \in RedirectData :
          RedirectWrite(original_path, data)
    \/ Elapse

SpecIsolated == Init /\ [][NextIsolated]_vars

(* --------------- the IncrementalBackupEngine of lib.rs ------------------ *)
\* execute_backup up to the walk: the time of the last backup is read once.
BeginBackup ==
    /\ incremental.run.pc = "idle"
    /\ incremental.runs < MaxRuns
    /\ incremental' = [incremental EXCEPT
                         !.run = [pc |-> "scan",
                                  last_backup |-> incremental.engine.last_backup_time,
                                  unvisited |-> Paths,
                                  files_to_backup |-> {},
                                  uncopied |-> {}],
                         !.clock = @ + 1]
    /\ UNCHANGED <<appvars, isolated>>

\* The walk reaches the file f and reads its modification time; after the
\* last file the parallel copy of the collected files starts.
Visit(f) ==
    /\ incremental.run.pc = "scan"
    /\ f \in incremental.run.unvisited
    /\ LET taken == IF ToBackup(incremental.run.last_backup, incremental.modified[f])
                    THEN incremental.run.files_to_backup \cup {f}
                    ELSE incremental.run.files_to_backup
           left == incremental.run.unvisited \ {f}
       IN  incremental' = [incremental EXCEPT
                             !.run.unvisited = left,
                             !.run.files_to_backup = taken,
                             !.run.uncopied = IF left = {} THEN taken ELSE {},
                             !.run.pc = IF left = {} THEN "copy" ELSE "scan",
                             !.scanned[f] = incremental.content[f],
                             !.clock = @ + 1]
    /\ UNCHANGED <<appvars, isolated>>

\* A rayon worker copies the file f as it is now.
Copy(f) ==
    /\ incremental.run.pc = "copy"
    /\ f \in incremental.run.uncopied
    /\ incremental' = [incremental EXCEPT
                         !.run.uncopied = @ \ {f},
                         !.copies = @ \cup {[file |-> f,
                                             content |-> incremental.content[f],
                                             run |-> incremental.runs + 1]},
                         !.clock = @ + 1]
    /\ UNCHANGED <<appvars, isolated>>

\* Every copy is done: the time of the last backup becomes the present
\* time, and execute_backup returns.
FinishBackup ==
    /\ incremental.run.pc = "copy"
    /\ incremental.run.uncopied = {}
    /\ incremental' = [incremental EXCEPT
                         !.engine.last_backup_time = Some(incremental.clock),
                         !.run = NoRun,
                         !.runs = @ + 1,
                         !.clock = @ + 1]
    /\ UNCHANGED <<appvars, isolated>>

\* Another process rewrites the file f of the source directory.
Modify(f) ==
    /\ incremental.modifications < MaxModifications
    /\ incremental' = [incremental EXCEPT
                         !.content[f] = @ + 1,
                         !.modified[f] = incremental.clock,
                         !.modifications = @ + 1,
                         !.clock = @ + 1]
    /\ UNCHANGED <<appvars, isolated>>

NextIncremental ==
    \/ BeginBackup
    \/ \E f \in Paths : Visit(f)
    \/ \E f \in Paths : Copy(f)
    \/ FinishBackup
    \/ \E f \in Paths : Modify(f)

SpecIncremental == Init /\ [][NextIncremental]_vars

(* ------------- the tasks of main.rs on the detector and alert locks ----- *)
\* Everything but the locks and the tasks' positions.
unlocked == <<files, manifest, blocks, encryption_key, rng, rs, recorded, clean,
              writes, restores, faults, channel, mon, tasks, detector, alerts,
              detector_lock, handlers, now, config, last_check, delivered,
              handled, diff, old_blocks, monitor, isolated, incremental>>

\* The task is inside its script, and the step it is at.
InScript(t) == sync.task[t].at \in 1..Len(sync.task[t].script)
StepOf(t) == sync.task[t].script[sync.task[t].at]

Advance(t) == [sync.task[t] EXCEPT !.at = @ + 1, !.waiting = FALSE]

\* The loop receives an event, or a request reaches a handler.
Begin(t) ==
    /\ sync.task[t] = NoScript
    /\ \E script \in Scripts(t) :
          sync' = [sync EXCEPT !.task[t] = [NoScript EXCEPT !.script = script, !.at = 1]]
    /\ UNCHANGED unlocked

\* lock.read() / lock.write(): the task joins the queue of the lock.
Request(t) ==
    /\ InScript(t)
    /\ StepOf(t).op = "acquire"
    /\ ~sync.task[t].waiting
    /\ sync' = [sync EXCEPT
                  !.lock[StepOf(t).lock].queue =
                      Append(@, [task |-> t, mode |-> StepOf(t).mode]),
                  !.task[t].waiting = TRUE]
    /\ UNCHANGED unlocked

\* The `.await` of the request at the head of a queue completes.
Grant(l) ==
    /\ sync.lock[l].queue # <<>>
    /\ LET request == Head(sync.lock[l].queue)
       IN  /\ Grantable(sync.lock[l], request)
           /\ sync' = [sync EXCEPT
                         !.lock[l] = [holders |-> sync.lock[l].holders \cup {request},
                                      queue |-> Tail(sync.lock[l].queue)],
                         !.task[request.task] = Advance(request.task)]
    /\ UNCHANGED unlocked

\* A guard goes out of scope.
DropGuard(t) ==
    /\ InScript(t)
    /\ StepOf(t).op = "drop"
    /\ sync' = [sync EXCEPT
                  !.lock[StepOf(t).lock].holders = {h \in @ : h.task # t},
                  !.task[t] = Advance(t)]
    /\ UNCHANGED unlocked

\* backup_file or backup_count returns.
RunStep(t) ==
    /\ InScript(t)
    /\ StepOf(t).op = "run"
    /\ sync' = [sync EXCEPT !.task[t] = Advance(t)]
    /\ UNCHANGED unlocked

\* The loop body or the handler is over.
Finish(t) ==
    /\ sync.task[t].script # <<>>
    /\ sync.task[t].at = Len(sync.task[t].script) + 1
    /\ sync' = [sync EXCEPT !.task[t] = NoScript]
    /\ UNCHANGED unlocked

\* backup_file panics (storage.rs line 69): unwinding drops the guards of
\* start_monitoring and the task is gone.
Panic ==
    /\ InScript("start_monitoring")
    /\ StepOf("start_monitoring") = Run("backup_file")
    /\ sync' = [sync EXCEPT
                  !.lock = [l \in Locks |->
                              [sync.lock[l] EXCEPT
                                 !.holders = {h \in @ : h.task # "start_monitoring"}]],
                  !.task["start_monitoring"] = [NoScript EXCEPT !.crashed = TRUE]]
    /\ UNCHANGED unlocked

\* What a task does once it runs: everything but being started.
Proceed(t) == Request(t) \/ DropGuard(t) \/ RunStep(t) \/ Finish(t)

NextLocks ==
    \/ \E t \in LockTasks : Begin(t)
    \/ \E t \in LockTasks : Proceed(t)
    \/ \E l \in Locks : Grant(l)
    \/ Panic

\* The runtime polls every task that can proceed, and the locks hand out
\* the guard at the head of their queue.
FairLocks ==
    /\ \A t \in LockTasks : WF_vars(Proceed(t))
    /\ \A l \in Locks : WF_vars(Grant(l))

SpecLocks == Init /\ [][NextLocks]_vars /\ FairLocks

(* ============================== claims ================================ *)
\* The versions the manifest of p holds (none when it cannot be loaded).
Versions(p) == IF manifest[p].kind = "json" THEN manifest[p].info.versions ELSE <<>>

\* The restore_file call has just returned Ok.
RestoreReturnsOk == rs.pc = "write" /\ rs'.pc = "idle" /\ rs'.result = "Ok"

\* A restore_file call has just been made (it left the idle position or
\* returned an error at once).
RestoreCalled == rs.pc = "idle" /\ rs' # rs

(* C1: round trip.  When restore_file(path, Some(N)) returns Ok, the path   *)
(* holds exactly the content F of every version that backup_file had       *)
(* recorded for the path under the number N before the call.               *)
C1_RoundTrip ==
    [][(RestoreReturnsOk /\ rs.version.some) =>
        \A i \in 1..rs.seen :
            recorded[rs.path][i].version = rs.version.v
                => files'[rs.path] = FileOf(recorded[rs.path][i].content)]_vars

(* C2: idempotent backup.  A backup_file(p) call made while p has been     *)
(* backed up and not modified since changes neither the manifests nor the  *)
(* object store, and no call records more than one version.                *)
C2_IdempotentBackup ==
    [][\A p \in Paths :
        /\ Len(recorded'[p]) <= Len(recorded[p]) + 1
        /\ (clean[p] /\ BackupFile(p))
              => (manifest' = manifest /\ blocks' = blocks /\ rng' = rng)]_vars

\* p was backed up twice, each time after a modification, and a further
\* backup_file(p) would be the second call on an unmodified file.
C2_Witness ==
    \E p \in Paths : clean[p] /\ Len(recorded[p]) = 2 /\ Len(Versions(p)) = 2

(* C3: version monotonicity.  After N recorded backups of a path, N not    *)
(* above the retention cap, its history holds exactly N versions, numbered *)
(* 1..N in insertion order, each with the digest of the content recorded.  *)
C3_VersionMonotonicity ==
    \A p \in Paths :
        Len(recorded[p]) <= MaxVersions =>
            /\ Len(Versions(p)) = Len(recorded[p])
            /\ \A i \in DOMAIN Versions(p) :
                  /\ Versions(p)[i].version = i
                  /\ Versions(p)[i].file_hash = hash(recorded[p][i].content)

C3_Witness ==
    /\ Len(recorded[RetentionPath]) = MaxVersions
    /\ Len(Versions(RetentionPath)) = MaxVersions
    /\ Versions(RetentionPath)[MaxVersions].version = MaxVersions

(* C4: the version numbers of a path's history are strictly increasing in  *)
(* list order (each new number is the last stored number plus 1), so no    *)
(* two stored versions share a number.                                     *)
C4_VersionNumbersIncrease ==
    \A p \in Paths :
        \A i \in DOMAIN Versions(p) :
            i > 1 => Versions(p)[i - 1].version < Versions(p)[i].version

(* C5: retention.  The persisted history never holds more than the cap;    *)
(* once the cap has been exceeded the count stays in [cap - batch, cap];   *)
(* the backup that first exceeds it removes exactly the batch; and the     *)
(* stored versions are the most recent recorded ones, in their order.      *)
C5_Retention ==
    \A p \in Paths :
        LET V == Versions(p)
            R == recorded[p]
        IN  /\ Len(V) <= MaxVersions
            /\ Len(R) > MaxVersions =>
                  (Len(V) >= MaxVersions - TrimCount /\ Len(V) <= MaxVersions)
            /\ Len(R) = MaxVersions + 1 => Len(V) = MaxVersions + 1 - TrimCount
            /\ Len(V) <= Len(R)
            /\ \A i \in DOMAIN V :
                  V[i].file_hash = hash(R[Len(R) - Len(V) + i].content)

\* The history has been trimmed a second time.
C5_Witness ==
    /\ Len(recorded[RetentionPath]) = MaxVersions + TrimCount + 1
    /\ Len(Versions(RetentionPath)) = MaxVersions + 1 - TrimCount

(* C6: restore of a version is deterministic.  A restore_file(path,        *)
(* Some(N)) that returned Ok assembled the content F of every version      *)
(* recorded under the number N before the call, never another backup's.    *)
C6_RestoreDeterministic ==
    (rs.pc = "idle" /\ rs.result = "Ok" /\ rs.version.some) =>
        \A i \in 1..rs.seen :
            recorded[rs.path][i].version = rs.version.v
                => rs.buf = recorded[rs.path][i].content

(* C7: atomic restore.  While restore_file writes the target, the target   *)
(* holds either its complete previous content or the complete restored     *)
(* content.                                                                *)
C7_AtomicRestore ==
    rs.pc \in {"create", "write"} =>
        files[rs.path] \in {rs.prev, FileOf(rs.buf)}

\* The errors restore_file returns before it writes the target.
PreWriteErrors ==
    {"LoadIo", "LoadJson", "NoBackupVersions", "VersionNotFound",
     "BlockNotFound", "DecryptionFailed", "DecompressionFailed"}

(* C8: restore errors are all-or-nothing.  A restore_file call that fails  *)
(* on the manifest, the version or a block returns at once and leaves      *)
(* every watched file, the target included, exactly as it was.             *)
C8_RestoreErrorsAllOrNothing ==
    [][(RestoreCalled /\ rs'.result \in PreWriteErrors) =>
        (files' = files /\ rs'.pc = "idle")]_vars

\* A restore failed on a block that is not the first one, over an existing
\* non-empty target.
C8_Witness ==
    /\ rs.pc = "idle"
    /\ rs.result \in {"BlockNotFound", "DecryptionFailed", "DecompressionFailed"}
    /\ rs.block > 1
    /\ files[rs.path].exists
    /\ files[rs.path].data # <<>>

(* C9: version selection.  restore_file fails with the no-backups error    *)
(* when the manifest is missing or holds no version, with version-not-     *)
(* found when no stored version carries the number asked for, and          *)
(* otherwise assembles the last version (no number given) or the one       *)
(* stored version carrying the number.                                     *)
C9_VersionSelection ==
    [][RestoreCalled =>
        LET V == Versions(rs'.path)
            v == rs'.version
            hits == {i \in DOMAIN V : V[i].version = v.v}
        IN  /\ V = <<>> => rs'.result = "NoBackupVersions"
            /\ (V # <<>> /\ v.some /\ hits = {}) => rs'.result = "VersionNotFound"
            /\ (V # <<>> /\ v.some /\ hits # {}) => Cardinality(hits) = 1
            /\ (V # <<>> /\ ~v.some /\ rs'.pc = "create") =>
                  hash(rs'.buf) = Last(V).file_hash]_vars

\* The objects of the store that hold the bytes b.
ObjectsHolding(b) ==
    {q \in DOMAIN blocks :
        LET compressed == decrypt_block(blocks[q], encryption_key)
        IN  /\ compressed.ok
            /\ decompress(compressed.data).ok
            /\ decompress(compressed.data).data = b}

Opened(q) ==
    LET compressed == decrypt_block(blocks[q], encryption_key)
    IN  IF compressed.ok THEN decompress(compressed.data)
        ELSE [ok |-> FALSE, data |-> <<>>]

(* C11: content addressing.  Every object of the store holds bytes whose    *)
(* digest is the digest it is stored under, and the block digests of every *)
(* stored version are the digests of the chunks of the content whose       *)
(* whole-file digest the version carries, also when the file is modified   *)
(* while backup_file runs.                                                 *)
C11_ContentAddressing ==
    /\ \A q \in DOMAIN blocks : Opened(q).ok /\ hash(Opened(q).data) = q[3]
    /\ \A p \in Paths : \A i \in DOMAIN Versions(p) :
          Versions(p)[i].block_hashes =
              create_block_hashes(Unhash(Versions(p)[i].file_hash))

\* The backup_file execution in slot s has just returned `result`.
Returns(s, result) ==
    tasks[s].pc # "idle" /\ tasks'[s].pc = "idle" /\ tasks'[s].result = result

(* C12: a backup failure does not stop monitoring.  A backup_file call that *)
(* returns an error changes neither the detector, nor the alert log, nor   *)
(* the manifest of any other path; and when the loop gets the error it is  *)
(* back at next_event with the detector lock released, the detector and    *)
(* the alert log unchanged.                                                *)
C12_BackupFailureDoesNotStopMonitoring ==
    [][/\ \A s \in Slots : Returns(s, "Err") =>
              /\ detector' = detector
              /\ alerts' = alerts
              /\ \A q \in Paths \ {tasks[s].path} : manifest'[q] = manifest[q]
       /\ (mon.pc = "await" /\ mon'.pc # "await" /\ tasks[mon.slot].result = "Err") =>
              /\ mon'.pc = "recv"
              /\ ~detector_lock'.writer
              /\ detector' = detector
              /\ alerts' = alerts]_vars

\* After a backup failure for one event the loop has received a later event
\* and the detector has processed it.
C12_Witness ==
    \E i, j \in DOMAIN handled :
        i < j /\ handled[i].result = "Err" /\ handled[j].processed = 1

(* C13: the monitoring loop never crashes from a single bad file: whatever *)
(* the file contents and the timing of modifications, the task running     *)
(* start_monitoring is never ended by a panic.                             *)
C13_LoopNeverCrashes == mon.pc # "crashed"

\* The iteration for the i-th received event is over.
IterationOver(i) == i < Len(handled) \/ mon.pc \in {"recv", "crashed"}

(* C14: every delivered event is observed exactly once.  The loop receives *)
(* the delivered events in delivery order, none twice and none lost in the *)
(* channel; each received event gets one process_event call and, when its  *)
(* path existed, one backup_file call (none otherwise); and no delivered   *)
(* event is left in the channel of a loop that has stopped.                *)
C14_EveryEventObservedOnce ==
    /\ delivered = [i \in DOMAIN handled |-> handled[i].event] \o channel
    /\ \A i \in DOMAIN handled :
          /\ handled[i].processed <= 1
          /\ handled[i].backups <= 1
          /\ IterationOver(i) =>
                /\ handled[i].processed = 1
                /\ handled[i].checked
                /\ handled[i].backups = (IF handled[i].existed THEN 1 ELSE 0)
    /\ mon.pc = "crashed" => channel = <<>>

\* The backup_file executions in progress for the path p.
Running(p) == {s \in Slots : tasks[s].pc # "idle" /\ tasks[s].path = p}

(* C15: backups are serialized per path.  No two backup_file executions    *)
(* for one path are in progress at once; and, while no I/O operation has   *)
(* failed, every version recorded for a path is in its history and no two  *)
(* versions of the history carry the same number.                          *)
C15_BackupsSerialized ==
    \A p \in Paths :
        /\ Cardinality(Running(p)) <= 1
        /\ faults = 0 =>
              /\ Len(Versions(p)) = Len(recorded[p])
              /\ \A i, j \in DOMAIN Versions(p) :
                    i # j => Versions(p)[i].version # Versions(p)[j].version

\* Two change events for one file have been handled and both backups are in
\* the history.
C15_Witness ==
    \E p \in Paths :
        /\ faults = 0
        /\ Len(Versions(p)) = 2
        /\ Cardinality({i \in DOMAIN handled :
               handled[i].event.path = p /\ handled[i].result = "Ok"}) >= 2

\* The positions of the loop inside process_event and check_threat.
DetectorPositions == {"push", "count", "evict", "check"}

(* C16: the detector has a single writer.  process_event and check_threat  *)
(* run only under the write lock; the lock is never held by the writer and *)
(* a reader at once; and while a handler holds the read lock the loop is   *)
(* not inside process_event or check_threat and files_monitored is the     *)
(* number of events process_event has handled.                             *)
C16_DetectorSingleWriter ==
    /\ ~(detector_lock.writer /\ detector_lock.readers > 0)
    /\ detector_lock.readers = Cardinality({h \in Handlers : handlers[h] = "reading"})
    /\ mon.pc \in DetectorPositions => detector_lock.writer
    /\ \A h \in Handlers : handlers[h] = "reading" =>
          /\ mon.pc \notin DetectorPositions
          /\ detector.files_monitored =
                Cardinality({i \in DOMAIN handled : handled[i].processed = 1})

\* Both handlers read the detector while the loop, with an event received,
\* waits for the write lock.
C16_Witness ==
    /\ \A h \in Handlers : handlers[h] = "reading"
    /\ mon.pc = "lock"
    /\ detector.files_monitored >= 1
\* The entries of a window that are not older than the cutoff, in order.
Retained(event_window, cutoff) ==
    LET Young(e) == e.timestamp >= cutoff
    IN  SelectSeq(event_window, Young)

\* The events received so far, in arrival order.
Arrived == [i \in DOMAIN handled |-> handled[i].event]

IsSuffix(s, t) ==
    /\ Len(s) <= Len(t)
    /\ s = SubSeq(t, Len(t) - Len(s) + 1, Len(t))

\* C19: process_event appends the event at the back of the window and then
\* removes from the front every entry older than now - time_window_seconds, so
\* that after each process_event the window holds the retained events in
\* arrival order and no entry older than the window remains.
C19_SlidingWindow ==
    [][ /\ (mon.pc = "push" /\ mon'.pc # "push")
            => detector'.event_window = Append(detector.event_window, mon.event)
        /\ (mon.pc = "evict" /\ mon'.pc # "evict")
            => /\ detector'.event_window
                    = Retained(detector.event_window, now - config.time_window_seconds)
               /\ IsSuffix(detector'.event_window, Arrived)
               /\ \A i \in DOMAIN detector'.event_window :
                    detector'.event_window[i].timestamp
                        >= now - config.time_window_seconds ]_vars

\* process_event has removed two old entries and kept one that is exactly
\* time_window_seconds old.
C19_Witness ==
    /\ mon.pc = "check"
    /\ detector.files_monitored - Len(detector.event_window) >= 2
    /\ \E i \in DOMAIN detector.event_window :
        detector.event_window[i].timestamp = now - config.time_window_seconds

\* A step that is a direct call of check_threat.
Called == last_check'.calls = last_check.calls + 1

\* The texts of the reasons, in the order of the checks.
FactorTexts ==
    <<"Rapid file changes detected: {} files/min",
      "Suspicious extensions: {} files",
      "High entropy detected: {:.2} bits/byte",
      "Mass file renaming: {} patterns">>

\* The events of a window about a file with a suspicious extension.
SuspiciousEvents(w) ==
    {i \in DOMAIN w : extension(w[i].path).some
                      /\ <<".", extension(w[i].path).v>> \in config.suspicious_extensions}

\* The entropy of the file the last event of a window is about is above the
\* threshold.
EntropyAbove(w) ==
    /\ w # <<>>
    /\ FileAt(Last(w).path).exists
    /\ EntropyOf(FileAt(Last(w).path)).ok
    /\ EntropyOf(FileAt(Last(w).path)).entropy > config.entropy_threshold

\* The factors a window triggers, by their position, and their summed score.
Factors(w) ==
    {i \in 1..4 : CASE i = 1 -> Len(w) > config.rapid_change_threshold
                    [] i = 2 -> SuspiciousEvents(w) # {}
                    [] i = 3 -> EntropyAbove(w)
                    [] i = 4 -> detect_mass_rename(w) > 5}

FactorScore(i) == CASE i = 1 -> 30 [] i = 2 -> 20 [] i = 3 -> 40 [] i = 4 -> 10

RECURSIVE SummedScore(_)
SummedScore(F) ==
    IF F = {} THEN 0
    ELSE LET i == CHOOSE i \in F : TRUE
         IN  FactorScore(i) + SummedScore(F \ {i})

\* The texts of a description, the separators left out.
ReasonTexts(description) ==
    LET IsReason(x) == x[1] # "; "
        reasons == SelectSeq(description, IsReason)
    IN  [i \in DOMAIN reasons |-> reasons[i][1]]

\* The texts of the factors of F in factor order.
TextsOf(F) ==
    LET Triggered(t) == \E i \in F : FactorTexts[i] = t
    IN  SelectSeq(FactorTexts, Triggered)

\* C17: check_threat returns an alert if and only if the summed score of the
\* triggered factors is at least 70; the alert carries that score, the
\* triggered reasons joined in factor order with "; " between them, the path
\* of the most recent event of the window and the threat type "Ransomware".
C17_AlertIffScoreAtLeast70 ==
    [][ Called =>
          LET w == detector.event_window
              r == last_check'.result
          IN  /\ r.some <=> SummedScore(Factors(w)) >= 70
              /\ r.some =>
                    /\ r.v.score = SummedScore(Factors(w))
                    /\ ReasonTexts(r.v.description) = TextsOf(Factors(w))
                    /\ Len(r.v.description) = 2 * Cardinality(Factors(w)) - 1
                    /\ \A i \in DOMAIN r.v.description :
                          (i % 2 = 0) <=> (r.v.description[i] = <<"; ", 0>>)
                    /\ r.v.file_path = Last(w).path
                    /\ r.v.threat_type = "Ransomware" ]_vars

\* check_threat returned an alert at a score of exactly 70.
C17_Witness ==
    /\ last_check.calls > 0
    /\ last_check.result.some
    /\ last_check.result.v.score = 70
    /\ last_check.result.v.file_path = "a.dcm"

\* C18: with 51 events in the window, a rapid-change threshold of 50 and no
\* other factor triggered, the score is exactly 30 and check_threat returns no
\* alert; when in addition an event has a suspicious extension and the entropy
\* of the most recent event's file is above the threshold, the score is 90 and
\* the alert returned names all three reasons.
C18_ThresholdScenario ==
    [][ (/\ Called
         /\ config.rapid_change_threshold = 50
         /\ Len(detector.event_window) = 51
         /\ detect_mass_rename(detector.event_window) <= 5) =>
          LET w == detector.event_window
              r == last_check'.result
          IN  /\ (SuspiciousEvents(w) = {} /\ ~EntropyAbove(w))
                    => ThreatScore(detector, config) = 30 /\ ~r.some
              /\ (SuspiciousEvents(w) # {} /\ EntropyAbove(w))
                    => /\ ThreatScore(detector, config) = 90
                       /\ r.some
                       /\ r.v.score = 90
                       /\ r.v.description =
                            << <<FactorTexts[1], 51>>, <<"; ", 0>>,
                               <<FactorTexts[2], Cardinality(SuspiciousEvents(w))>>,
                               <<"; ", 0>>,
                               <<FactorTexts[3],
                                 EntropyOf(FileAt(Last(w).path)).entropy>> >> ]_vars

\* check_threat returned the alert of score 90 on a window of 51 events.
C18_Witness ==
    /\ last_check.calls > 0
    /\ Len(last_check.window) = 51
    /\ config.rapid_change_threshold = 50
    /\ last_check.result.some
    /\ last_check.result.v.score = 90
    /\ Len(last_check.result.v.description) = 5

Checks == mon.pc = "check" /\ mon'.pc # "check"

\* C21: every emitted alert is appended at the end of the alert log; when the
\* append makes the log exceed 1000 alerts the 100 oldest are removed from the
\* front and the order of the others is kept; the log never holds more than
\* 1000 alerts after an iteration.
C21_AlertLogBounded ==
    [][ /\ Checks =>
            LET r == last_check'.result
                n == Len(alerts)
            IN  /\ ~r.some => alerts' = alerts
                /\ (r.some /\ n + 1 <= 1000) => alerts' = Append(alerts, r.v)
                /\ (r.some /\ n + 1 > 1000) =>
                      /\ Len(alerts') = n + 1 - 100
                      /\ alerts'[Len(alerts')] = r.v
                      /\ \A i \in 1..(Len(alerts') - 1) : alerts'[i] = alerts[i + 100]
        /\ ~Checks => alerts' = alerts
        /\ Len(alerts') <= 1000 ]_vars

\* The log was trimmed: it holds 901 alerts and its first alert is the 101st
\* emitted, the one of the window of 151 events.
C21_Witness ==
    /\ Len(alerts) = 901
    /\ alerts[1].description[1][2] = config.rapid_change_threshold + 101
    /\ alerts[901].description[1][2] = config.rapid_change_threshold + 1001

\* The chunks of the current data of the call.
DiffChunks == chunks(diff.current_data, diff.engine.block_size)

TestCall ==
    /\ diff.called
    /\ diff.engine.block_size = 10
    /\ diff.current_data = new_data
    /\ diff.previous_blocks = <<hash(SubSeq(old_data, 1, 10)), hash(SubSeq(old_data, 11, 14))>>

\* C23: with old content "Hello World!!!" and new content "Hello Rust!!!!",
\* both chunked at block size 10, calculate_incremental_changes reports both
\* index 0 and index 1 as changed.
C23_IncrementalScenario == TestCall => diff.changes = <<0, 1>>

\* C23 as stated: index 1 is reported as changed and index 0 is not.
C23_AsStated ==
    TestCall => /\ \E k \in DOMAIN diff.changes : diff.changes[k] = 1
                /\ \A k \in DOMAIN diff.changes : diff.changes[k] # 0

\* The call of test_incremental_changes has returned.
C23_Witness == TestCall /\ Len(diff.changes) = 2

\* The version a restore_file(p, version) call selects, when it selects one.
Selected(p, version) ==
    IF Versions(p) = <<>> THEN [ok |-> FALSE]
    ELSE SelectVersion(Versions(p), version)

\* The objects a version references that an earlier process wrote.
OldBlocksOf(backup_version) ==
    {i \in DOMAIN backup_version.block_hashes :
        get_block_path(backup_version.block_hashes[i]) \in old_blocks}

\* C24: the key is generated anew at every start and never persisted, so an
\* object written by an earlier process never decrypts under the key of the
\* running one; restore_file of a version that references such an object
\* fails with a decryption error and leaves the files alone, also when the
\* version was recorded by the running process and reuses the object; a
\* version whose objects were all written by the running process is read
\* back in full, with the content it was recorded for.
C24_KeyNotPersisted ==
    [][ /\ \A q \in old_blocks' :
              q \in DOMAIN blocks' => ~decrypt_block(blocks'[q], encryption_key').ok
        /\ (restores' = restores + 1 /\ Selected(rs'.path, rs'.version).ok) =>
              LET backup_version == Selected(rs'.path, rs'.version).value
              IN  /\ OldBlocksOf(backup_version) # {}
                        => /\ rs'.result = "DecryptionFailed"
                           /\ rs'.pc = "idle"
                           /\ files' = files
                  /\ OldBlocksOf(backup_version) = {}
                        => /\ rs'.pc = "create"
                           /\ rs'.buf = Unhash(backup_version.file_hash) ]_vars

\* After a restart the file was backed up again, and restore_file of the
\* latest version, which reuses an object of the earlier process next to an
\* object of the running one, has failed with the decryption error.
C24_Witness ==
    /\ rs.pc = "idle"
    /\ rs.result = "DecryptionFailed"
    /\ rs.version = None
    /\ rs.seen = Len(recorded[rs.path])
    /\ old_blocks # {}
    /\ \E q \in DOMAIN blocks : q \notin old_blocks
    /\ OldBlocksOf(Last(Versions(rs.path))) # {}

\* How often each extension occurs among the events of a window, and the
\* extensions that occur more than 3 times.
Histogram(w) ==
    [e \in {extension(w[i].path).v : i \in {j \in DOMAIN w : extension(w[j].path).some}} |->
        Cardinality({i \in DOMAIN w : extension(w[i].path) = Some(e)})]

FrequentExtensions(w) ==
    LET histogram == Histogram(w)
    IN  {e \in DOMAIN histogram : histogram[e] > 3}

\* C25: the score check_threat computes is the sum of four independent
\* factors: 30 when the window holds strictly more events than
\* rapid_change_threshold, 20 (once) when an event has a suspicious
\* extension, 40 when the entropy of the most recent event's file is above the
\* threshold, 10 when more than 5 extensions occur more than 3 times each; it
\* is one of 0, 10, ..., 100.
C25_ScoreFactors ==
    LET w == detector.event_window
        threat_score == ThreatScore(detector, config)
    IN  /\ threat_score
              = (IF Len(w) > config.rapid_change_threshold THEN 30 ELSE 0)
                + (IF SuspiciousEvents(w) # {} THEN 20 ELSE 0)
                + (IF EntropyAbove(w) THEN 40 ELSE 0)
                + (IF Cardinality(FrequentExtensions(w)) > 5 THEN 10 ELSE 0)
        /\ threat_score \in {10 * k : k \in 0..10}
        /\ (last_check.calls > 0 /\ last_check.result.some /\ last_check.window = w
                /\ last_check.file = FileAt(Last(w).path))
              => last_check.result.v.score = threat_score

\* check_threat returned the alert of all four factors, score 100, on a
\* window with four events of a suspicious extension.
C25_Witness ==
    /\ last_check.calls > 0
    /\ last_check.result.some
    /\ last_check.result.v.score = 100
    /\ Cardinality(SuspiciousEvents(last_check.window)) = 4

\* A backup_file(p) call records a version in this step.
Records(p) == recorded'[p] # recorded[p]

\* C26: backup_file of an existing path whose manifest is missing or
\* unparsable treats the history as empty: it succeeds and saves a manifest
\* that holds exactly one version, numbered 1, for the content of the file.
C26_UnloadableManifestIsEmptyHistory ==
    [][ \A p \in Paths :
          (manifest[p].kind # "json" /\ Records(p)) =>
              /\ files[p].exists
              /\ files' = files
              /\ manifest'[p].kind = "json"
              /\ Len(manifest'[p].info.versions) = 1
              /\ manifest'[p].info.versions[1].version = 1
              /\ manifest'[p].info.versions[1].file_hash = hash(files[p].data)
              /\ manifest'[p].info.versions[1].block_hashes
                    = create_block_hashes(files[p].data)
              /\ Last(recorded'[p]) = [version |-> 1, content |-> files[p].data] ]_vars

\* A path backed up once lost its manifest and was backed up again: the
\* manifest holds one version, numbered 1, the second one recorded.
C26_Witness ==
    \E p \in FaultPaths :
        /\ faults > 0
        /\ Len(recorded[p]) = 2
        /\ Len(Versions(p)) = 1
        /\ Versions(p)[1].version = 1
        /\ recorded[p][2].version = 1

\* The file the most recent event of a window is about.
LastFile(w) == FileAt(Last(w).path)

\* C27: when the file of the most recent event does not exist or cannot be
\* read, check_threat returns normally with the score of the other three
\* factors: the 40 points of the entropy factor are not added and no reason
\* names the entropy.
C27_UnreadableFileAddsNothing ==
    [][ (/\ Called
         /\ detector.event_window # <<>>
         /\ (~LastFile(detector.event_window).exists
                \/ ~Readable(LastFile(detector.event_window)))) =>
          LET w == detector.event_window
              triggered == {i \in {1, 2, 4} :
                              CASE i = 1 -> Len(w) > config.rapid_change_threshold
                                [] i = 2 -> SuspiciousEvents(w) # {}
                                [] i = 4 -> Cardinality(FrequentExtensions(w)) > 5}
              reasons == ThreatReasons(detector, config)
          IN  /\ ThreatScore(detector, config) = SummedScore(triggered)
              /\ [i \in DOMAIN reasons |-> reasons[i][1]] = TextsOf(triggered)
              /\ last_check'.result = None ]_vars

\* check_threat was called on a window whose most recent file has two byte
\* values and cannot be read, under the low entropy threshold, the other
\* three factors all triggered: it returned no alert at a score of 60.
C27_Witness ==
    /\ last_check.calls > 0
    /\ last_check.file = Unreadable
    /\ last_check.window = detector.event_window
    /\ config.entropy_threshold = LowEntropyThreshold
    /\ ThreatScore(detector, config) = 60
    /\ last_check.result = None

\* C28: stored blocks are immutable and never deleted.  No step of
\* backup_file, restore_file or the retention trim removes an object of the
\* store or changes its payload; a backup encrypts and writes a block only
\* when no object exists under its digest.
C28_BlocksImmutable ==
    [][ /\ \A q \in DOMAIN blocks : q \in DOMAIN blocks' /\ blocks'[q] = blocks[q]
        /\ rng' - rng = Cardinality((DOMAIN blocks') \ (DOMAIN blocks)) ]_vars

\* The history was trimmed and a restore returned; the store holds one
\* object per block written, fewer than the backups made, the blocks of the
\* trimmed versions among them.
C28_Witness ==
    /\ Len(recorded[RetentionPath]) > MaxVersions
    /\ Len(Versions(RetentionPath)) < Len(recorded[RetentionPath])
    /\ restores > 0
    /\ rs.pc = "idle"
    /\ rng = Cardinality(DOMAIN blocks)
    /\ rng < Len(recorded[RetentionPath])
    /\ \A i \in 1..TrimCount :
          LET block_hashes == create_block_hashes(recorded[RetentionPath][i].content)
          IN  \A k \in DOMAIN block_hashes :
                get_block_path(block_hashes[k]) \in DOMAIN blocks

\* The loop finds in this step that the path of its event does not exist.
Vanished ==
    mon.pc = "exists" /\ mon'.pc # "exists" /\ ~FileAt(mon.event.path).exists

\* C29: an event whose path no longer exists is processed by the detector
\* and triggers no backup: no backup_file call is made for it and the files,
\* the manifests and the object store stay as they are; the history and the
\* store change only while the loop handles an event whose path existed; and
\* backup_file called on a path that does not exist returns Ok with no effect.
C29_NoBackupForMissingPath ==
    [][ /\ Vanished =>
              /\ Last(handled).event = mon.event
              /\ Last(handled).processed = 1
              /\ detector.files_monitored = Len(handled)
              /\ mon'.pc = "recv"
              /\ tasks' = tasks
              /\ Last(handled').backups = 0
              /\ UNCHANGED <<files, manifest, blocks, rng, recorded>>
        /\ \A s \in Slots :
              (/\ tasks[s].pc = "start"
               /\ tasks'[s] # tasks[s]
               /\ ~FileAt(tasks[s].path).exists) =>
                  /\ tasks'[s] = [IdleTask EXCEPT !.result = "Ok"]
                  /\ UNCHANGED <<files, manifest, blocks, rng, recorded>>
        /\ <<manifest, blocks, recorded>>' # <<manifest, blocks, recorded>> =>
              handled # <<>> /\ Last(handled).existed /\ mon.pc = "await" ]_vars

\* The deletion of a file with a backup history was handled: the detector
\* processed the event, no backup was called, the history is still stored.
C29_Witness ==
    \E i \in DOMAIN handled :
        /\ handled[i].event.event_type = "Deleted"
        /\ IterationOver(i)
        /\ handled[i].processed = 1
        /\ handled[i].checked
        /\ ~handled[i].existed
        /\ handled[i].backups = 0
        /\ Versions(handled[i].event.path) # <<>>
        /\ ~files[handled[i].event.path].exists

\* The FileEvent the loop is owed for an event of the watcher: the first
\* path of a create, modify or remove event, when that path has an extension
\* and the allow-list is empty or holds the dot and the extension.
Owed(event) ==
    /\ event.kind \in {"Create", "Modify", "Remove"}
    /\ event.paths # <<>>
    /\ extension(event.paths[1]).some
    /\ monitor.extensions = {}
          \/ \E e \in monitor.extensions :
                e[1] = "." /\ e[2] = extension(event.paths[1]).v

\* The path and the type of each event of a sequence of FileEvents.
PathAndType(events) ==
    [i \in DOMAIN events |-> <<events[i].path, events[i].event_type>>]

\* The path and the type owed for each owed event of the watcher, in the
\* order the watcher produced them.
OwedOf(watched) ==
    LET owed == SelectSeq(watched, Owed)
    IN  [i \in DOMAIN owed |->
            <<owed[i].paths[1],
              CASE owed[i].kind = "Create" -> "Created"
                [] owed[i].kind = "Modify" -> "Modified"
                [] owed[i].kind = "Remove" -> "Deleted">>]

\* A FileEvent the forwarding thread has yet to look at is owed to the loop.
OwedPending(event) == Owed(Event("Modify", <<event.path>>))

\* C30: the events delivered to the monitoring loop are, in the order the
\* watcher produced them, exactly the create, modify and remove events whose
\* first path has an extension that the allow-list holds or that meets an
\* empty allow-list, each as the Created, Modified or Deleted event of that
\* path, once the forwarding thread has looked at it; events of another
\* kind, without a path or without an extension are never delivered.
C30_DeliveredIffAllowed ==
    /\ channel = delivered
    /\ PathAndType(delivered) \o PathAndType(SelectSeq(monitor.rx, OwedPending))
          = OwedOf(monitor.watched)
    /\ monitor.rx = <<>> => PathAndType(delivered) = OwedOf(monitor.watched)

\* Under an empty allow-list the watcher reported g.txt modified, README
\* created and a.dcm removed: the two events of a path with an extension
\* were delivered, in that order.
C30_Witness ==
    /\ monitor.extensions = {}
    /\ monitor.rx = <<>>
    /\ Len(monitor.watched) = 3
    /\ monitor.watched[2] = Event("Create", <<"README">>)
    /\ PathAndType(delivered) = <<<<"g.txt", "Modified">>, <<"a.dcm", "Deleted">>>>

\* The backup_file execution in slot s holds the BackupVersion that
\* create_backup returned to it.
Holding(s) == tasks[s].pc \in {"store", "save"}

\* C31 as stated: the version number create_backup returns is 0.
C31_AsStated ==
    \A s \in Slots : Holding(s) => tasks[s].backup_version.version = 0

\* C31: create_backup returns a BackupVersion whose version number is the
\* placeholder 1; the number a version is persisted under is assigned when
\* backup_file records it, one more than the number of versions loaded,
\* whatever the placeholder was, and the versions loaded are saved as they
\* were.
C31_PlaceholderOverwritten ==
    [][ \A s \in Slots :
          /\ Holding(s) => tasks[s].backup_version.version = 1
          /\ (tasks[s].pc = "save" /\ tasks'[s].pc = "idle" /\ tasks'[s].result = "Ok") =>
                LET saved == manifest'[tasks[s].path].info.versions
                    loaded == tasks[s].versions
                IN  /\ manifest'[tasks[s].path].kind = "json"
                    /\ Len(saved) = Len(loaded) + 1
                    /\ SubSeq(saved, 1, Len(loaded)) = loaded
                    /\ Last(saved).version = Len(loaded) + 1
                    /\ Last(saved).file_hash = tasks[s].backup_version.file_hash
                    /\ Last(saved).block_hashes = tasks[s].backup_version.block_hashes ]_vars

\* A second version of a path was recorded: it was returned with the number
\* 1 and is persisted under the number 2.
C31_Witness ==
    \E p \in Paths :
        /\ Len(Versions(p)) = 2
        /\ Versions(p)[1].version = 1
        /\ Versions(p)[2].version = 2
        /\ Len(recorded[p]) = 2
        /\ \A s \in Slots : tasks[s].pc = "idle"
        /\ handled # <<>> /\ Last(handled).result = "Ok"

\* C32: referential integrity of the store.  Every block digest listed in a
\* version of a persisted manifest has an object in the store.
C32_ReferentialIntegrity ==
    \A p \in Paths :
        manifest[p].kind = "json" =>
            \A i \in DOMAIN manifest[p].info.versions :
                \A k \in DOMAIN manifest[p].info.versions[i].block_hashes :
                    get_block_path(manifest[p].info.versions[i].block_hashes[k])
                        \in DOMAIN blocks

\* The number the next version saved for p gets, by the persisted manifest.
NextNumber(p) ==
    IF manifest[p].kind = "json" THEN Len(manifest[p].info.versions) + 1 ELSE 1

\* C33: a failed backup leaves the history unchanged.  No step taken while a
\* backup_file execution is before its save changes a manifest; an execution
\* that returns an error from reading the file or storing a block leaves the
\* manifests and the recorded history as they are; and the version a
\* successful save records is numbered by the persisted manifest alone, so
\* the backup after a failed one gets the number the failed one would have had.
C33_FailedBackupLeavesHistory ==
    [][ \A s \in Slots :
          /\ tasks[s].pc \in {"start", "create", "store"} =>
                manifest' = manifest /\ recorded' = recorded
          /\ (Returns(s, "Err") /\ tasks[s].pc # "save") =>
                /\ manifest' = manifest
                /\ recorded' = recorded
          /\ tasks[s].pc = "store" => Len(tasks[s].versions) + 1 = NextNumber(tasks[s].path)
          /\ Returns(s, "Ok") /\ tasks[s].pc = "save" =>
                /\ Last(manifest'[tasks[s].path].info.versions).version
                      = NextNumber(tasks[s].path)
                /\ Last(recorded'[tasks[s].path]).version = NextNumber(tasks[s].path) ]_vars

\* Three events of one path were handled: its first backup succeeded, the
\* second failed, the third succeeded and its version is numbered 2.
C33_Witness ==
    /\ Len(handled) = 3
    /\ \A i \in 1..3 : handled[i].event.path = RetentionPath
    /\ handled[1].result = "Ok"
    /\ handled[2].result = "Err"
    /\ handled[3].result = "Ok"
    /\ Len(Versions(RetentionPath)) = 2
    /\ Last(Versions(RetentionPath)).version = 2
    /\ Len(recorded[RetentionPath]) = 2

\* The task waits in the queue of the lock; the task holds a guard of it.
Queued(t, l) == \E i \in DOMAIN sync.lock[l].queue : sync.lock[l].queue[i].task = t
Holds(t, l) == \E h \in sync.lock[l].holders : h.task = t

\* C34: the monitoring loop and the handlers cannot deadlock on the detector
\* and alert locks.  No task requests the detector lock while it holds a
\* guard of the alert lock; a write guard is never out together with another
\* guard of its lock; and every lock request is eventually granted.
C34_NoDeadlock ==
    /\ [](\A t \in LockTasks : Queued(t, "detector") => ~Holds(t, "alerts"))
    /\ [](\A l \in Locks : \A h \in sync.lock[l].holders :
              h.mode = "write" => sync.lock[l].holders = {h})
    /\ \A t \in LockTasks : \A l \in Locks : Queued(t, l) ~> Holds(t, l)

\* get_status holds the detector read guard, the loop waits for the write
\* guard with get_metrics queued behind it, and get_alerts reads the alerts.
C34_Witness ==
    /\ sync.lock["detector"].holders = {[task |-> "get_status", mode |-> "read"]}
    /\ sync.lock["detector"].queue = <<[task |-> "start_monitoring", mode |-> "write"],
                                       [task |-> "get_metrics", mode |-> "read"]>>
    /\ Holds("get_alerts", "alerts")
    /\ Queued("get_status", "alerts")

\* C35: no alert without the entropy factor.  The three other factors sum
\* to at most 60; check_threat returns an alert only when the file of the
\* most recent event exists, can be read and has an entropy above the
\* threshold, and the alert names the entropy; when that file does not
\* exist no alert is returned, whatever the window holds.
C35_NoAlertWithoutEntropy ==
    [][ Called =>
          LET w == detector.event_window
              r == last_check'.result
          IN  /\ SummedScore(Factors(w) \ {3}) <= 60
              /\ r.some =>
                    /\ w # <<>>
                    /\ LastFile(w).exists
                    /\ Readable(LastFile(w))
                    /\ EntropyAbove(w)
                    /\ \E i \in DOMAIN r.v.description :
                          r.v.description[i][1] = FactorTexts[3]
                    /\ r.v.score >= 70
              /\ (w # <<>> /\ ~LastFile(w).exists) => ~r.some ]_vars

\* check_threat was called on a window of more than 50 events, with
\* suspicious extensions and more than 5 frequent extensions, whose most
\* recent file had been deleted: the score is 60 and no alert is returned.
C35_Witness ==
    /\ last_check.calls > 0
    /\ last_check.file = NoFileState
    /\ last_check.window = detector.event_window
    /\ Len(detector.event_window) > config.rapid_change_threshold
    /\ Last(detector.event_window).path = RetentionPath
    /\ ~files[RetentionPath].exists
    /\ SummedScore(Factors(detector.event_window)) = 60
    /\ ~last_check.result.some

\* C36: with the default configuration no event with a suspicious extension
\* reaches the detector, the detector never sees more than the 5 extensions
\* of the allow-list, so the mass-rename factor never triggers; the score is
\* one of 0, 30, 40 and 70; and check_threat returns an alert exactly when
\* the window holds more than 50 events and the most recent file has an
\* entropy above the threshold.
C36_DefaultConfiguration ==
    LET w == detector.event_window
        threat_score == ThreatScore(detector, config)
    IN  /\ SuspiciousEvents(w) = {}
        /\ \A i \in DOMAIN w :
              /\ extension(w[i].path).some
              /\ <<".", extension(w[i].path).v>> \in DefaultExtensions
              /\ <<".", extension(w[i].path).v>> \notin config.suspicious_extensions
        /\ Cardinality(DefaultExtensions) = 5
        /\ Cardinality(FrequentExtensions(w)) <= 5
        /\ threat_score \in {0, 30, 40, 70}
        /\ threat_score = 70 <=> (Len(w) > 50 /\ EntropyAbove(w))
        /\ (last_check.calls > 0 /\ last_check.window = w
                /\ w # <<>> /\ last_check.file = LastFile(w))
              => (last_check.result.some <=> (Len(w) > 50 /\ EntropyAbove(w)))

\* The watcher reported h.locked, the forwarding thread dropped it, and
\* check_threat returned the alert of 51 events and an encrypted a.dcm at a
\* score of 70.
C36_Witness ==
    /\ \E i \in DOMAIN monitor.watched : monitor.watched[i].paths = <<"h.locked">>
    /\ monitor.rx = <<>>
    /\ channel = <<>>
    /\ last_check.calls > 0
    /\ last_check.result.some
    /\ last_check.result.v.score = 70
    /\ last_check.file = Ciphertext
    /\ Len(last_check.window) = 51

\* The current data of the call is what is left of the content `previous`
\* after a truncation on a block boundary.
TruncatedFrom(previous) ==
    /\ diff.previous_blocks = engine_block_hashes(diff.engine, previous)
    /\ Len(diff.current_data) < Len(previous)
    /\ Len(diff.current_data) % diff.engine.block_size = 0
    /\ diff.current_data = SubSeq(previous, 1, Len(diff.current_data))

\* C37: calculate_incremental_changes reports indices of chunks of the
\* current data only: every index returned is below the number of current
\* chunks; so when the current data is the previous content truncated on a
\* block boundary, down to empty, the result is the empty list although the
\* content changed.
C37_TruncationNotReported ==
    diff.called =>
        /\ \A k \in DOMAIN diff.changes :
              diff.changes[k] >= 0 /\ diff.changes[k] < Len(DiffChunks)
        /\ diff.current_data = <<>> => diff.changes = <<>>
        /\ \A previous \in Contents :
              (diff.engine.block_size = block_size /\ TruncatedFrom(previous)) =>
                  /\ diff.changes = <<>>
                  /\ diff.current_data # previous

\* The call on <<0, 1>> against the digests of <<0, 1, 0>> returned the
\* empty list.
C37_Witness ==
    /\ diff.called
    /\ diff.current_data = <<0, 1>>
    /\ TruncatedFrom(<<0, 1, 0>>)
    /\ Len(diff.previous_blocks) = 2
    /\ diff.changes = <<>>

\* redirect_write is called now, on this path with this data.
Redirecting(original_path, data) ==
    /\ isolated.calls < MaxRedirects
    /\ isolated'.calls = isolated.calls + 1
    /\ isolated' = [redirect_write(isolated, original_path, data)
                      EXCEPT !.calls = @ + 1]

\* C38: redirect_write succeeds only while isolation is active.  Called
\* when it is active (after activate_isolation) it returns Ok, the data is
\* in a file under the clean log directory, that file exists, and the write
\* log is the old one with one WriteOperation more, the one returned; called
\* when it is not active (initially, or after deactivate_isolation) it
\* returns an error, writes no file and leaves the write log as it was.
\* Isolation is not active at the start.
C38_RedirectOnlyWhileActive ==
    /\ ~isolated.manager.is_isolation_active
    /\ [][\A original_path \in OriginalPaths : \A data \in RedirectData :
            Redirecting(original_path, data) =>
                IF isolated.manager.is_isolation_active
                THEN LET operation == isolated'.last.operation
                     IN  /\ isolated'.last.ok
                         /\ operation.original_path = original_path
                         /\ operation.data_size = Len(data)
                         /\ starts_with(operation.redirected_path, clean_log_dir)
                         /\ operation.redirected_path # clean_log_dir
                         /\ operation.redirected_path \in DOMAIN isolated'.written
                         /\ isolated'.written[operation.redirected_path] = data
                         /\ operation.redirected_path \notin isolated'.dirs
                         /\ isolated'.manager.write_log =
                                Append(isolated.manager.write_log, operation)
                ELSE /\ ~isolated'.last.ok
                     /\ isolated'.written = isolated.written
                     /\ isolated'.dirs = isolated.dirs
                     /\ isolated'.manager = isolated.manager]_vars

\* A write was redirected while isolation was active, and after
\* deactivate_isolation a later call returned the error.
C38_Witness ==
    /\ isolated.calls >= 2
    /\ Len(isolated.manager.write_log) = 1
    /\ DOMAIN isolated.written =
           {clean_log_dir \o <<"0_test.txt">>}
    /\ ~isolated.manager.is_isolation_active
    /\ ~isolated.last.ok

\* The walk of an execute_backup call reaches the file f now.
Visiting(f) ==
    /\ incremental.run.pc = "scan"
    /\ f \in incremental.run.unvisited
    /\ f \notin incremental'.run.unvisited

\* C39: every modification is captured by the next incremental run.  A
\* file modified after the walk of an execute_backup call visited it, also
\* while that call was still copying, is in the file set of the following
\* call; and when that call returns, a copy of the file at least as recent
\* as what its walk found exists.
C39_EveryModificationCaptured ==
    [][/\ \A f \in Paths :
            (/\ Visiting(f)
             /\ incremental.scanned[f] >= 0
             /\ incremental.content[f] > incremental.scanned[f])
                => f \in incremental'.run.files_to_backup
       /\ (incremental.run.pc = "copy" /\ incremental'.run.pc = "idle") =>
            \A f \in Paths :
                \E c \in incremental'.copies :
                    c.file = f /\ c.content >= incremental.scanned[f]]_vars

====
